---------------------------- MODULE Spec2Model ----------------------------
(***************************************************************************)
(* BookBrain indexing pipeline (bookbrain-backend).                        *)
(*                                                                         *)
(* Two entry points drive the same pipeline for one document:              *)
(*   index_local_pdf  (services/batch_indexer.py)                          *)
(*   upload_book      (api/routes/books.py)                                *)
(* Both call parse_pdf, the storage adapter (services/storage.py), the     *)
(* book repository, a chunker and index_book (services/indexer.py).        *)
(* Every call to an external collaborator is one step of a run; between    *)
(* two steps of one run the steps of other runs may interleave (asyncio).  *)
(***************************************************************************)
EXTENDS Integers, Sequences, FiniteSets, TLC

(***************************************************************************)
(* Bounds of the model.                                                    *)
(***************************************************************************)
NumProcs == 2
MaxChunks == 1
MaxFaults == 2
MaxNameLen == 4
MaxTail == 1
MaxEmbedChunks == 4
MaxBatchSize == 2
MaxRetries == 3
MaxBaseDelay == 2
MaxPollAttempts == 3

Min(a, b) == IF a < b THEN a ELSE b

(***************************************************************************)
(* Local PDF validation: validate_pdf_file_path.                           *)
(***************************************************************************)
PDF_MAGIC_NUMBER == <<"%", "P", "D", "F", "-">>

\* str.lower() on the characters file names are drawn from
LowerChar(c) ==
  CASE c = "P" -> "p"
    [] c = "D" -> "d"
    [] c = "F" -> "f"
    [] OTHER -> c

lower(s) == [i \in 1..Len(s) |-> LowerChar(s[i])]

\* str.endswith / bytes.startswith
endswith(s, suffix) ==
  /\ Len(suffix) <= Len(s)
  /\ SubSeq(s, Len(s) - Len(suffix) + 1, Len(s)) = suffix

startswith(s, prefix) ==
  /\ Len(prefix) <= Len(s)
  /\ SubSeq(s, 1, Len(prefix)) = prefix

\* f.read(n): at most the first n bytes
read(content, n) == SubSeq(content, 1, Min(n, Len(content)))

DotPdf == <<".", "p", "d", "f">>

\* the extension compared without lower()
validate_pdf_file_path_nocase(file) ==
  IF ~file.exists THEN "PDFReadError"
  ELSE IF ~file.is_file THEN "PDFReadError"
  ELSE IF ~endswith(file.name, DotPdf) THEN "InvalidFileFormatError"
  ELSE IF ~file.readable THEN "PDFReadError"
  ELSE IF ~startswith(read(file.content, Len(PDF_MAGIC_NUMBER)), PDF_MAGIC_NUMBER)
       THEN "InvalidFileFormatError"
  ELSE "ok"

\* A path on the local disk: exists() / is_file() / name / whether open()
\* succeeds / the bytes of the file.
validate_pdf_file_path(file) ==
  IF ~file.exists THEN "PDFReadError"
  ELSE IF ~file.is_file THEN "PDFReadError"
  ELSE IF ~endswith(lower(file.name), DotPdf) THEN "InvalidFileFormatError"
  ELSE IF ~file.readable THEN "PDFReadError"
  ELSE IF ~startswith(read(file.content, Len(PDF_MAGIC_NUMBER)), PDF_MAGIC_NUMBER)
       THEN "InvalidFileFormatError"
  ELSE "ok"

SeqsUpTo(S, n) == UNION {[1..k -> S] : k \in 0..n}

NameChars == {".", "p", "d", "f", "D"}
Names == SeqsUpTo(NameChars, MaxNameLen)

\* File contents: a prefix of the signature followed by a few other bytes.
Contents ==
  {SubSeq(PDF_MAGIC_NUMBER, 1, k) \o t :
     k \in 0..Len(PDF_MAGIC_NUMBER), t \in SeqsUpTo({"%", "x"}, MaxTail)}

\* The paths validation is tried on: a missing path, a directory, and regular
\* files that can or cannot be opened.
PathInputs ==
  {[exists |-> FALSE, is_file |-> FALSE, name |-> n, readable |-> FALSE,
    content |-> <<>>] : n \in Names}
  \cup
  {[exists |-> TRUE, is_file |-> FALSE, name |-> n, readable |-> FALSE,
    content |-> <<>>] : n \in Names}
  \cup
  {[exists |-> TRUE, is_file |-> TRUE, name |-> n, readable |-> r,
    content |-> c] : n \in Names, r \in BOOLEAN, c \in Contents}

(***************************************************************************)
(* Upload validation: validate_pdf_file (api/routes/books.py).             *)
(***************************************************************************)
validate_pdf_file(file) ==
  IF ~endswith(lower(file.name), DotPdf) THEN "InvalidFileFormatError"
  ELSE IF /\ file.content_type # ""
          /\ file.content_type # "application/pdf"
          /\ file.content_type # "application/octet-stream"
       THEN "InvalidFileFormatError"
  ELSE IF ~startswith(read(file.content, Len(PDF_MAGIC_NUMBER)), PDF_MAGIC_NUMBER)
       THEN "InvalidFileFormatError"
  ELSE "ok"

(***************************************************************************)
(* The documents the pipeline is run on.                                   *)
(***************************************************************************)
BookPdf == <<"d", ".", "p", "d", "f">>

GoodFile ==
  [exists |-> TRUE, is_file |-> TRUE, name |-> BookPdf, readable |-> TRUE,
   content |-> PDF_MAGIC_NUMBER \o <<"x">>, content_type |-> "application/pdf"]

MissingFile ==
  [exists |-> FALSE, is_file |-> FALSE, name |-> BookPdf, readable |-> FALSE,
   content |-> <<>>, content_type |-> ""]

NotPdfFile ==
  [exists |-> TRUE, is_file |-> TRUE, name |-> BookPdf, readable |-> TRUE,
   content |-> <<"x">>, content_type |-> "application/pdf"]

\* index_local_pdf is given paths; upload_book is given uploaded bytes
LocalFiles == {GoodFile, MissingFile, NotPdfFile}
UploadFiles == {GoodFile, NotPdfFile}

Procs == 1..NumProcs
\* Titles are interchangeable: the k-th invocation is given one of the first k.
Titles == <<"t1", "t2">>
TitlesFor(k) == {Titles[i] : i \in 1..Min(k, Len(Titles))}

\* storage locators: a local path or an s3:// URI, named by a fresh uuid
NoPath == [backend |-> "none", n |-> 0]
LocalPath(n) == [backend |-> "local", n |-> n]
S3Uri(n) == [backend |-> "s3", n |-> n]

\* data/parsed/<identifier>.json: the identifier is a book id or a uuid
ByBook(id) == <<"book", id>>
ByUuid(n) == <<"uuid", n>>

VARIABLES
  s3_enabled,    \* settings.s3_enabled
  books,         \* rows of the books table
  next_id,       \* next surrogate key of the books table
  vectors,       \* points of the Qdrant collection: book_id -> number of points
  pdfs,          \* locators of the files in permanent storage (local dir or bucket)
  temp_files,    \* temporary upload files on disk
  parsed_local,  \* identifiers of the JSON files under data/parsed
  parsed_s3,     \* book ids of the objects parsed/<book_id>.json in the bucket
  started,       \* number of pipeline invocations started so far
  run            \* the invocation each task is executing

pvars == <<s3_enabled, books, next_id, vectors, pdfs, temp_files, parsed_local,
           parsed_s3, started, run>>

\* every invocation creates at most one Book record
BookIds == 1..NumProcs

NoResult ==
  [status |-> "none", skipped |-> FALSE, book_id |-> 0, chunks_count |-> 0,
   error |-> "none", cause |-> "none", http |-> 0]

\* BatchIndexingResult(status="skipped", skipped=True), book_id left None
SkippedResult == [NoResult EXCEPT !.status = "skipped", !.skipped = TRUE]

\* BatchIndexingResult / IndexingResponse with status "indexed"
IndexedResult(id, n) ==
  [NoResult EXCEPT !.status = "indexed", !.book_id = id, !.chunks_count = n]

\* an exception leaving the entry point: its type and the root of its cause chain
ErrorResult(error, cause, http) ==
  [NoResult EXCEPT !.status = "error", !.error = error, !.cause = cause,
                   !.http = http]

(***************************************************************************)
(* Order of the stages of the two entry points.                            *)
(***************************************************************************)
\* an ordering that looks at the file only after it has been sent to the parser
next_stage_local_validate_late(stage, skip_existing) ==
  CASE stage = "start" -> IF skip_existing THEN "duplicate_check" ELSE "parse"
    [] stage = "duplicate_check" -> "parse"
    [] stage = "parse" -> "validate"
    [] stage = "validate" -> "promote"
    [] stage = "promote" -> "create_book"
    [] stage = "create_book" -> "save_side"
    [] stage = "save_side" -> "chunk"
    [] stage = "chunk" -> "embed"
    [] stage = "embed" -> "store"
    [] stage = "store" -> "stamp"
    [] OTHER -> "done"

\* index_local_pdf, steps 1-8; the duplicate check only with skip_existing
next_stage_local(stage, skip_existing) ==
  CASE stage = "start" -> "validate"
    [] stage = "validate" -> IF skip_existing THEN "duplicate_check" ELSE "parse"
    [] stage = "duplicate_check" -> "parse"
    [] stage = "parse" -> "promote"
    [] stage = "promote" -> "create_book"
    [] stage = "create_book" -> "save_side"
    [] stage = "save_side" -> "chunk"
    [] stage = "chunk" -> "embed"
    [] stage = "embed" -> "store"
    [] stage = "store" -> "stamp"
    [] OTHER -> "done"

\* an ordering that promotes the file before it is parsed
next_stage_upload_promote_first(stage) ==
  CASE stage = "start" -> "validate"
    [] stage = "validate" -> "save_temp"
    [] stage = "save_temp" -> "promote"
    [] stage = "promote" -> "parse"
    [] stage = "parse" -> "backup"
    [] stage = "backup" -> "create_book"
    [] stage = "create_book" -> "save_side"
    [] stage = "save_side" -> "chunk"
    [] stage = "chunk" -> "embed"
    [] stage = "embed" -> "store"
    [] stage = "store" -> "stamp"
    [] OTHER -> "done"

\* upload_book, steps 1-7
next_stage_upload(stage) ==
  CASE stage = "start" -> "validate"
    [] stage = "validate" -> "save_temp"
    [] stage = "save_temp" -> "parse"
    [] stage = "parse" -> "backup"
    [] stage = "backup" -> "promote"
    [] stage = "promote" -> "create_book"
    [] stage = "create_book" -> "save_side"
    [] stage = "save_side" -> "chunk"
    [] stage = "chunk" -> "embed"
    [] stage = "embed" -> "store"
    [] stage = "store" -> "stamp"
    [] OTHER -> "done"

NextStage(r, stage) ==
  IF r.entry = "index_local_pdf"
  THEN next_stage_local(stage, r.skip_existing)
  ELSE next_stage_upload(stage)

(***************************************************************************)
(* The except clauses of the two entry points, in the order they are       *)
(* written.                                                                *)
(***************************************************************************)
\* a generic handler that cleans up and re-raises what it caught
except_clause_local_unwrapped(exc) ==
  IF exc \in {"InvalidFileFormatError", "PDFReadError", "DuplicateBookError"}
  THEN "reraise"
  ELSE "cleanup_reraise"

\* a handler list without the first clause for DuplicateBookError
except_clause_local_dup_wrapped(exc) ==
  IF exc \in {"InvalidFileFormatError", "PDFReadError"} THEN "reraise"
  ELSE IF exc = "IndexingError" THEN "cleanup_reraise"
  ELSE "cleanup_wrap"

except_clause_local(exc) ==
  IF exc \in {"InvalidFileFormatError", "PDFReadError", "DuplicateBookError"}
  THEN "reraise"
  ELSE IF exc = "IndexingError" THEN "cleanup_reraise"
  ELSE "cleanup_wrap"

except_clause_upload(exc) ==
  IF exc = "InvalidFileFormatError" THEN "http_400"
  ELSE IF exc = "DuplicateBookError" THEN "http_409"
  ELSE IF exc = "IndexingError" THEN "http_500_indexing"
  ELSE "http_500_internal"

\* what the caller receives once the except clause has run
Reported(r) ==
  CASE r.handler = "reraise" -> ErrorResult(r.exc, r.cause, 0)
    [] r.handler = "cleanup_reraise" -> ErrorResult(r.exc, r.cause, 0)
    [] r.handler = "cleanup_wrap" -> ErrorResult("IndexingError", r.cause, 0)
    [] r.handler = "http_400" -> ErrorResult("HTTPException", r.cause, 400)
    [] r.handler = "http_409" -> ErrorResult("HTTPException", r.cause, 409)
    [] OTHER -> ErrorResult("HTTPException", r.cause, 500)

Finish(r, result) == [r EXCEPT !.pc = "done", !.result = result]

\* the call op is made and succeeds or fails; a failed call is counted
Log(r, op, ok) ==
  [r EXCEPT !.trace = Append(@, [op |-> op, ok |-> ok]),
            !.faults = IF ok THEN @ ELSE @ + 1]

\* exc, whose cause chain ends in cause, is raised inside the try block
Raised(r, exc, cause) ==
  LET clause == IF r.entry = "index_local_pdf"
                THEN except_clause_local(exc)
                ELSE except_clause_upload(exc)
      r1 == [r EXCEPT !.exc = exc, !.cause = cause, !.handler = clause]
  IN IF clause = "reraise" THEN Finish(r1, Reported(r1))
     ELSE IF r.entry = "index_local_pdf" THEN [r1 EXCEPT !.pc = "h_book"]
     ELSE [r1 EXCEPT !.pc = "h_temp"]

VARIABLES vfile, vresult

vvars == <<vfile, vresult>>

\* the embedding client (services/embedder.py)
VARIABLES
  e_settings,   \* embedding_batch_size, embedding_max_retries, base delay, key
  e_chunks,     \* the argument of generate_embeddings
  e_pc,         \* "start", "call", "sleep", "done"
  e_i,          \* loop variable i of generate_embeddings
  e_attempt,    \* loop variable attempt of _call_embeddings_api
  e_embedded,   \* embedded_chunks
  e_tokens,     \* total_tokens
  e_log,        \* provider calls and sleeps, in the order they were made
  e_result      \* what generate_embeddings returned or raised

evars ==
  <<e_settings, e_chunks, e_pc, e_i, e_attempt, e_embedded, e_tokens, e_log,
    e_result>>

\* the parse client (services/parser.py)
VARIABLES
  x_path,          \* what parse_pdf finds at file_path
  x_max_polls,     \* settings.storm_parse_max_poll_attempts
  x_pc,            \* "start", "submit", "submit_sleep", "poll", "poll_sleep", "done"
  x_retry_count,   \* argument retry_count of _submit_parse_request
  x_poll_count,    \* poll_count of _poll_for_result
  x_log,           \* requests and sleeps, in the order they were made
  x_result         \* what parse_pdf returned or raised

xvars ==
  <<x_path, x_max_polls, x_pc, x_retry_count, x_poll_count, x_log, x_result>>

\* one call of _parse_job_response: the JSON body handed to it and what the
\* call gave
VARIABLES j_response, j_result

jvars == <<j_response, j_result>>

\* one call of chunk_text: the document, the result of chunker.chunk_text and
\* the result of sentence_chunker.chunk_text
VARIABLES c_document, c_result, s_result

cvars == <<c_document, c_result, s_result>>

\* the storage functions called on their own: the calls made so far
VARIABLES d_log

dvars == <<d_log>>

\* the batch runner (scripts/batch_upload.py)
VARIABLES
  b_args,       \* the command line: --parallel, --dry-run, --no-skip-existing,
                \* and the number of PDF files in --source
  b_pc,         \* "main", "run_batch_upload", "sequential", "parallel", "report",
                \* "done", "usage_error"
  b_parallel,   \* args.parallel once main has validated it
  b_semaphore,  \* the value of the asyncio.Semaphore of _run_parallel_upload
  b_task,       \* per scanned file: where its index_local_pdf call stands
  b_completed,  \* files whose task has returned, in the order of completion
  b_result      \* the BatchResult

bvars ==
  <<b_args, b_pc, b_parallel, b_semaphore, b_task, b_completed, b_result>>

\* the while loop of chunker.chunk_text, one iteration at a time
VARIABLES
  w_total_tokens,  \* len(all_tokens)
  w_pc,            \* "while", "done"
  w_start_token,   \* start_token
  w_end_token,     \* end_token of the last window
  w_chunk_index    \* chunk_index, the number of chunks appended so far

wvars == <<w_total_tokens, w_pc, w_start_token, w_end_token, w_chunk_index>>

\* the state of the calls of the helper functions checked on their own
uvars == <<jvars, cvars, dvars, bvars, wvars>>

vars == <<pvars, vvars, evars, xvars, uvars>>

\* IndexingResult of index_book (services/indexer.py); returned is FALSE until
\* index_book has returned one
NoIndexing == [returned |-> FALSE, chunks_stored |-> 0, total_tokens |-> 0]

\* the provider's usage.total_tokens, one token per chunk in this model
IndexingResult(chunks_stored) ==
  [returned |-> TRUE, chunks_stored |-> chunks_stored,
   total_tokens |-> chunks_stored]

IdleRun ==
  [entry |-> "none", pc |-> "idle", uid |-> 0, file |-> GoodFile, title |-> "t1",
   skip_existing |-> FALSE, temp_path |-> 0, stored_path |-> NoPath,
   book_id |-> 0, parse_result |-> FALSE, temp_parsed_path |-> 0,
   n_chunks |-> 0, faults |-> 0, inner |-> "none", exc |-> "none", cause |-> "none",
   handler |-> "none", result |-> NoResult, indexing |-> NoIndexing,
   trace |-> <<>>]

\* the local variables of an entry point at its first statement; uid stands for
\* the uuid4() / tempfile names this invocation will draw
FreshRun(entry, uid, file, title, skip_existing) ==
  [IdleRun EXCEPT !.entry = entry, !.uid = uid, !.file = file, !.title = title,
                  !.skip_existing = skip_existing,
                  !.pc = IF entry = "index_local_pdf"
                         THEN next_stage_local("start", skip_existing)
                         ELSE next_stage_upload("start")]

PipelineInit ==
  /\ s3_enabled \in BOOLEAN
  /\ books = {}
  /\ next_id = 1
  /\ vectors = [b \in BookIds |-> 0]
  /\ pdfs = {}
  /\ temp_files = {}
  /\ parsed_local = {}
  /\ parsed_s3 = {}
  /\ started = 0
  /\ run = [p \in Procs |-> IdleRun]

(***************************************************************************)
(* Failure injection.  An external call (database, parse service, storage, *)
(* embedding provider, vector store) may fail; at most MaxFaults calls     *)
(* fail among the invocations the tasks hold.                              *)
(***************************************************************************)
RECURSIVE SumFaults(_)
SumFaults(S) ==
  IF S = {} THEN 0
  ELSE LET q == CHOOSE x \in S : TRUE
       IN run[q].faults + SumFaults(S \ {q})

\* failed calls so far, r being the state of one of the invocations
Spent(r) == r.faults + SumFaults({q \in Procs : run[q].uid # r.uid})

Outcomes(r) == IF Spent(r) < MaxFaults THEN {TRUE, FALSE} ELSE {TRUE}

(***************************************************************************)
(* A caller invokes index_local_pdf or upload_book.  Tasks are numbered in  *)
(* the order in which they are started.                                    *)
(***************************************************************************)
Start(p) ==
  /\ run[p].pc = "idle"
  /\ p = started + 1
  /\ \E entry \in {"index_local_pdf", "upload_book"},
        title \in TitlesFor(started + 1), skip \in BOOLEAN :
       \E file \in (IF entry = "index_local_pdf" THEN LocalFiles ELSE UploadFiles) :
         /\ entry = "upload_book" => ~skip
         /\ run' = [run EXCEPT ![p] = FreshRun(entry, started + 1, file, title, skip)]
  /\ started' = started + 1
  /\ UNCHANGED <<s3_enabled, books, next_id, vectors, pdfs, temp_files,
                 parsed_local, parsed_s3, vvars>>

(***************************************************************************)
(* 1. Validate.                                                            *)
(***************************************************************************)
Validate(p) ==
  LET r == run[p]
      v == IF r.entry = "index_local_pdf"
           THEN validate_pdf_file_path(r.file)
           ELSE validate_pdf_file(r.file)
      r1 == Log(r, "validate", v = "ok")
  IN /\ r.pc = "validate"
     /\ run' = [run EXCEPT ![p] =
                  IF v = "ok" THEN [r1 EXCEPT !.pc = NextStage(r, "validate")]
                  ELSE Raised(r1, v, v)]
     /\ UNCHANGED <<s3_enabled, books, next_id, vectors, pdfs, temp_files,
                    parsed_local, parsed_s3, started, vvars>>

(***************************************************************************)
(* 2. Duplicate check (index_local_pdf with skip_existing).                *)
(***************************************************************************)
\* book_repository.exists_by_title
exists_by_title(title) == \E b \in books : b.title = title

\* a check whose answer is not acted on
duplicate_check_ignored(exists) == "continue"

\* if exists: return BatchIndexingResult(status="skipped", ...)
duplicate_check(exists) == IF exists THEN "skip" ELSE "continue"

DuplicateCheck(p) ==
  LET r == run[p]
  IN /\ r.pc = "duplicate_check"
     /\ \E db_ok \in Outcomes(r) :
          run' = [run EXCEPT ![p] =
            IF ~db_ok
            THEN Raised(Log(r, "exists_by_title", FALSE), "DatabaseError",
                        "DatabaseError")
            ELSE IF duplicate_check(exists_by_title(r.title)) = "skip"
            THEN Finish(Log(r, "exists_by_title", TRUE), SkippedResult)
            ELSE [Log(r, "exists_by_title", TRUE) EXCEPT
                    !.pc = NextStage(r, "duplicate_check")]]
     /\ UNCHANGED <<s3_enabled, books, next_id, vectors, pdfs, temp_files,
                    parsed_local, parsed_s3, started, vvars>>

(***************************************************************************)
(* upload_book step 2: the upload is written to a temporary file.          *)
(***************************************************************************)
SaveTemp(p) ==
  LET r == run[p]
  IN /\ r.pc = "save_temp"
     /\ \E ok \in Outcomes(r) :
          IF ok
          THEN /\ temp_files' = temp_files \cup {r.uid}
               /\ run' = [run EXCEPT ![p] =
                            [Log(r, "save_to_temp_for_indexing", TRUE) EXCEPT
                               !.temp_path = r.uid,
                               !.pc = NextStage(r, "save_temp")]]
          ELSE \* the function removes its partial file and re-raises
               /\ temp_files' = temp_files
               /\ run' = [run EXCEPT ![p] =
                            Raised(Log(r, "save_to_temp_for_indexing", FALSE),
                                   "OSError", "OSError")]
     /\ UNCHANGED <<s3_enabled, books, next_id, vectors, pdfs, parsed_local,
                    parsed_s3, started, vvars>>

(***************************************************************************)
(* 3. Parse: the external Storm Parse call.                                *)
(***************************************************************************)
ParseOutcomes(r) ==
  IF Spent(r) < MaxFaults THEN {"ok", "StormParseAPIError", "PDFReadError"}
  ELSE {"ok"}

Parse(p) ==
  LET r == run[p]
  IN /\ r.pc = "parse"
     /\ \E out \in ParseOutcomes(r) :
          run' = [run EXCEPT ![p] =
            IF out = "ok"
            THEN [Log(r, "parse_pdf", TRUE) EXCEPT
                    !.parse_result = TRUE, !.pc = NextStage(r, "parse")]
            ELSE Raised(Log(r, "parse_pdf", FALSE), out, out)]
     /\ UNCHANGED <<s3_enabled, books, next_id, vectors, pdfs, temp_files,
                    parsed_local, parsed_s3, started, vvars>>

(***************************************************************************)
(* upload_book step 3.5: the raw parse response is written under           *)
(* data/parsed/<uuid>.json.                                                *)
(***************************************************************************)
\* save_parsed_result_to_local: mkdir is outside its try block
LocalSaveOutcomes(r) ==
  IF Spent(r) < MaxFaults THEN {"saved", "none", "mkdir_error"} ELSE {"saved"}

Backup(p) ==
  LET r == run[p]
  IN /\ r.pc = "backup"
     /\ \E out \in LocalSaveOutcomes(r) :
          CASE out = "saved" ->
                 /\ parsed_local' = parsed_local \cup {ByUuid(r.uid)}
                 /\ run' = [run EXCEPT ![p] =
                      [Log(r, "save_parsed_result_to_local", TRUE) EXCEPT
                         !.temp_parsed_path = r.uid,
                         !.pc = NextStage(r, "backup")]]
            [] out = "none" ->
                 /\ parsed_local' = parsed_local
                 /\ run' = [run EXCEPT ![p] =
                      [Log(r, "save_parsed_result_to_local", FALSE) EXCEPT
                         !.pc = NextStage(r, "backup")]]
            [] OTHER ->
                 /\ parsed_local' = parsed_local
                 /\ run' = [run EXCEPT ![p] =
                      Raised(Log(r, "save_parsed_result_to_local", FALSE),
                             "OSError", "OSError")]
     /\ UNCHANGED <<s3_enabled, books, next_id, vectors, pdfs, temp_files,
                    parsed_s3, started, vvars>>

(***************************************************************************)
(* 4. The source file is promoted to permanent storage.                    *)
(***************************************************************************)
\* a cleanup that leaves the file where it is
cleanup_temp_file_noop(files, temp_path, rm_ok) == files

\* cleanup_temp_file(temp_path): if temp_path and os.path.exists(temp_path):
\* os.remove(temp_path), an OSError of which is logged only
cleanup_temp_file(files, temp_path, rm_ok) ==
  IF temp_path # 0 /\ temp_path \in files /\ rm_ok
  THEN files \ {temp_path}
  ELSE files

\* upload_book wraps upload_temp_to_s3 in try/except and falls back to the local
\* directory; index_local_pdf calls it bare
on_upload_failure(entry) == IF entry = "upload_book" THEN "fallback" ELSE "raise"

\* settings.s3_enabled: upload_temp_to_s3(path)
PromoteS3(p) ==
  LET r == run[p]
  IN /\ r.pc = "promote"
     /\ s3_enabled
     /\ \E ok \in Outcomes(r), rm_ok \in Outcomes(r) :
          IF ok
          THEN /\ pdfs' = pdfs \cup {S3Uri(r.uid)}
               /\ IF r.entry = "upload_book"
                  THEN \* cleanup_temp_file(temp_path); temp_path = None
                       /\ temp_files' =
                            cleanup_temp_file(temp_files, r.temp_path, rm_ok)
                       /\ run' = [run EXCEPT ![p] =
                            [Log(Log(r, "upload_temp_to_s3", TRUE),
                                 "cleanup_temp_file", rm_ok) EXCEPT
                               !.stored_path = S3Uri(r.uid), !.temp_path = 0,
                               !.pc = NextStage(r, "promote")]]
                  ELSE /\ temp_files' = temp_files
                       /\ run' = [run EXCEPT ![p] =
                            [Log(r, "upload_temp_to_s3", TRUE) EXCEPT
                               !.stored_path = S3Uri(r.uid),
                               !.pc = NextStage(r, "promote")]]
          ELSE /\ pdfs' = pdfs
               /\ temp_files' = temp_files
               /\ run' = [run EXCEPT ![p] =
                    IF on_upload_failure(r.entry) = "fallback"
                    THEN [Log(r, "upload_temp_to_s3", FALSE) EXCEPT
                            !.pc = "fallback"]
                    ELSE Raised(Log(r, "upload_temp_to_s3", FALSE),
                                "ClientError", "ClientError")]
     /\ UNCHANGED <<s3_enabled, books, next_id, vectors, parsed_local,
                    parsed_s3, started, vvars>>

\* copy_to_local_storage(file_path) / move_temp_to_local_storage(temp_path)
ToLocalStorage(p, r) ==
  \E ok \in Outcomes(r) :
    IF ok
    THEN /\ pdfs' = pdfs \cup {LocalPath(r.uid)}
         /\ IF r.entry = "upload_book"
            THEN /\ temp_files' = temp_files \ {r.temp_path}
                 /\ run' = [run EXCEPT ![p] =
                      [Log(r, "move_temp_to_local_storage", TRUE) EXCEPT
                         !.stored_path = LocalPath(r.uid), !.temp_path = 0,
                         !.pc = NextStage(r, "promote")]]
            ELSE /\ temp_files' = temp_files
                 /\ run' = [run EXCEPT ![p] =
                      [Log(r, "copy_to_local_storage", TRUE) EXCEPT
                         !.stored_path = LocalPath(r.uid),
                         !.pc = NextStage(r, "promote")]]
    ELSE /\ pdfs' = pdfs
         /\ temp_files' = temp_files
         /\ run' = [run EXCEPT ![p] =
              Raised(Log(r, IF r.entry = "upload_book"
                            THEN "move_temp_to_local_storage"
                            ELSE "copy_to_local_storage", FALSE),
                     "OSError", "OSError")]

PromoteLocal(p) ==
  /\ run[p].pc = "promote"
  /\ ~s3_enabled
  /\ ToLocalStorage(p, run[p])
  /\ UNCHANGED <<s3_enabled, books, next_id, vectors, parsed_local, parsed_s3,
                 started, vvars>>

\* except Exception as s3_err: file_path = move_temp_to_local_storage(temp_path)
PromoteFallback(p) ==
  /\ run[p].pc = "fallback"
  /\ ToLocalStorage(p, run[p])
  /\ UNCHANGED <<s3_enabled, books, next_id, vectors, parsed_local, parsed_s3,
                 started, vvars>>

(***************************************************************************)
(* 5. The Book record is created with the final storage locator.          *)
(* The books table rejects a second row with the same title.               *)
(***************************************************************************)
CreateBook(p) ==
  LET r == run[p]
  IN /\ r.pc = "create_book"
     /\ \E db_ok \in Outcomes(r) :
          IF ~db_ok
          THEN /\ run' = [run EXCEPT ![p] =
                    Raised(Log(r, "create_book", FALSE), "BookCreationError",
                           "BookCreationError")]
               /\ UNCHANGED <<books, next_id>>
          ELSE IF exists_by_title(r.title)
          THEN \* psycopg.errors.UniqueViolation
               /\ run' = [run EXCEPT ![p] =
                    Raised(Log(r, "create_book", FALSE), "DuplicateBookError",
                           "DuplicateBookError")]
               /\ UNCHANGED <<books, next_id>>
          ELSE /\ books' = books \cup
                    {[id |-> next_id, title |-> r.title,
                      file_path |-> r.stored_path, embedding_model |-> FALSE]}
               /\ next_id' = next_id + 1
               /\ run' = [run EXCEPT ![p] =
                    [Log(r, "create_book", TRUE) EXCEPT
                       !.book_id = next_id,
                       !.pc = NextStage(r, "create_book")]]
     /\ UNCHANGED <<s3_enabled, vectors, pdfs, temp_files, parsed_local,
                    parsed_s3, started, vvars>>

(***************************************************************************)
(* 6. The raw parse response is saved under the book id.                   *)
(***************************************************************************)
\* save_parsed_result: the locator it returns
save_parsed_result(local_saved, s3_saved) ==
  IF s3_enabled /\ s3_saved THEN "s3"
  ELSE IF local_saved THEN "local"
  ELSE "none"

\* index_local_pdf: if settings.s3_enabled: save_parsed_result_to_s3(book_id, ...)
SaveSideLocalEntry(p) ==
  LET r == run[p]
  IN /\ r.pc = "save_side"
     /\ r.entry = "index_local_pdf"
     /\ IF s3_enabled
        THEN \E ok \in Outcomes(r) :
               /\ parsed_s3' = IF ok THEN parsed_s3 \cup {r.book_id} ELSE parsed_s3
               /\ run' = [run EXCEPT ![p] =
                    [Log(r, "save_parsed_result_to_s3", ok) EXCEPT
                       !.pc = NextStage(r, "save_side")]]
        ELSE /\ parsed_s3' = parsed_s3
             /\ run' = [run EXCEPT ![p].pc = NextStage(r, "save_side")]
     /\ UNCHANGED <<s3_enabled, books, next_id, vectors, pdfs, temp_files,
                    parsed_local, started, vvars>>

\* upload_book: save_parsed_result(book_id, ...): local first, then S3 if enabled
SaveSideUpload(p) ==
  LET r == run[p]
  IN /\ r.pc = "save_side"
     /\ r.entry = "upload_book"
     /\ \E out \in LocalSaveOutcomes(r) :
          IF out = "mkdir_error"
          THEN /\ run' = [run EXCEPT ![p] =
                    Raised(Log(r, "save_parsed_result_to_local", FALSE),
                           "OSError", "OSError")]
               /\ UNCHANGED <<parsed_local, parsed_s3>>
          ELSE LET r1 == Log(r, "save_parsed_result_to_local", out = "saved")
               IN \E s3_ok \in Outcomes(r1) :
                    LET r2 == IF s3_enabled
                              THEN Log(r1, "save_parsed_result_to_s3", s3_ok)
                              ELSE r1
                    IN /\ parsed_local' = IF out = "saved"
                                          THEN parsed_local \cup {ByBook(r.book_id)}
                                          ELSE parsed_local
                       /\ parsed_s3' = IF s3_enabled /\ s3_ok
                                       THEN parsed_s3 \cup {r.book_id}
                                       ELSE parsed_s3
                       /\ run' = [run EXCEPT ![p] =
                            [r2 EXCEPT !.pc = NextStage(r, "save_side")]]
     /\ UNCHANGED <<s3_enabled, books, next_id, vectors, pdfs, temp_files,
                    started, vvars>>

(***************************************************************************)
(* 7. Chunk the parsed document.                                           *)
(***************************************************************************)
Chunk(p) ==
  LET r == run[p]
  IN /\ r.pc = "chunk"
     /\ \/ \E n \in 0..MaxChunks :
             run' = [run EXCEPT ![p] =
               [Log(r, "chunk_text", TRUE) EXCEPT
                  !.n_chunks = n, !.pc = NextStage(r, "chunk")]]
        \/ /\ Spent(r) < MaxFaults
           /\ run' = [run EXCEPT ![p] =
                Raised(Log(r, "chunk_text", FALSE), "ChunkerError",
                       "ChunkerError")]
     /\ UNCHANGED <<s3_enabled, books, next_id, vectors, pdfs, temp_files,
                    parsed_local, parsed_s3, started, vvars>>

(***************************************************************************)
(* 8. index_book (services/indexer.py): embed, upsert, stamp; its own      *)
(* except clause deletes the vectors of the book and raises IndexingError. *)
(***************************************************************************)
\* an index_book that has no early return
index_book_short_circuit_never(n_chunks) == FALSE

\* if not chunked_document.chunks: return IndexingResult(chunks_stored=0, ...)
index_book_short_circuit(n_chunks) == n_chunks = 0

\* an except clause that re-raises whatever it caught
reraised_by_index_book_unwrapped(e) == e

\* if isinstance(e, IndexingError): raise;  raise IndexingError(..., cause=e)
reraised_by_index_book(e) ==
  IF e = "IndexingError" THEN e ELSE "IndexingError"

\* if not chunked_document.chunks: return ...; else generate_embeddings(chunks)
Embed(p) ==
  LET r == run[p]
  IN /\ r.pc = "embed"
     /\ IF index_book_short_circuit(r.n_chunks)
        THEN run' = [run EXCEPT ![p] =
               Finish([r EXCEPT !.indexing = IndexingResult(0)],
                      IndexedResult(r.book_id, 0))]
        ELSE \E ok \in Outcomes(r) :
               run' = [run EXCEPT ![p] =
                 IF ok
                 THEN [Log(r, "generate_embeddings", TRUE) EXCEPT
                         !.pc = NextStage(r, "embed")]
                 ELSE [Log(r, "generate_embeddings", FALSE) EXCEPT
                         !.inner = "EmbeddingError", !.pc = "rollback"]]
     /\ UNCHANGED <<s3_enabled, books, next_id, vectors, pdfs, temp_files,
                    parsed_local, parsed_s3, started, vvars>>

\* store_chunks(chunk_data_list): one bulk upsert; a failed upsert may have
\* written some of the points
Store(p) ==
  LET r == run[p]
  IN /\ r.pc = "store"
     /\ \/ /\ vectors' = [vectors EXCEPT ![r.book_id] = @ + r.n_chunks]
           /\ run' = [run EXCEPT ![p] =
                [Log(r, "store_chunks", TRUE) EXCEPT !.pc = NextStage(r, "store")]]
        \/ \E k \in 0..r.n_chunks :
             /\ Spent(r) < MaxFaults
             /\ vectors' = [vectors EXCEPT ![r.book_id] = @ + k]
             /\ run' = [run EXCEPT ![p] =
                  [Log(r, "store_chunks", FALSE) EXCEPT
                     !.inner = "VectorStoreError", !.pc = "rollback"]]
     /\ UNCHANGED <<s3_enabled, books, next_id, pdfs, temp_files, parsed_local,
                    parsed_s3, started, vvars>>

\* update_book_embedding_model(book_id, model_version, total_pages)
Stamp(p) ==
  LET r == run[p]
  IN /\ r.pc = "stamp"
     /\ \E ok \in Outcomes(r) :
          IF ok
          THEN /\ books' = {IF b.id = r.book_id
                            THEN [b EXCEPT !.embedding_model = TRUE]
                            ELSE b : b \in books}
               /\ run' = [run EXCEPT ![p] =
                    Finish([Log(r, "update_book_embedding_model", TRUE) EXCEPT
                              !.indexing = IndexingResult(r.n_chunks)],
                           IndexedResult(r.book_id, r.n_chunks))]
          ELSE /\ books' = books
               /\ run' = [run EXCEPT ![p] =
                    [Log(r, "update_book_embedding_model", FALSE) EXCEPT
                       !.inner = "DatabaseError", !.pc = "rollback"]]
     /\ UNCHANGED <<s3_enabled, next_id, vectors, pdfs, temp_files,
                    parsed_local, parsed_s3, started, vvars>>

\* except Exception as e: try: delete_chunks_by_book_id(book_id)
\*                        except Exception: logger.error(...)
\* then IndexingError(cause=e) is raised into the entry point
Rollback(p) ==
  LET r == run[p]
  IN /\ r.pc = "rollback"
     /\ \E ok \in Outcomes(r) :
          /\ vectors' = IF ok THEN [vectors EXCEPT ![r.book_id] = 0] ELSE vectors
          /\ run' = [run EXCEPT ![p] =
               Raised(Log(r, "delete_chunks_by_book_id", ok),
                      reraised_by_index_book(r.inner), r.inner)]
     /\ UNCHANGED <<s3_enabled, books, next_id, pdfs, temp_files, parsed_local,
                    parsed_s3, started, vvars>>

(***************************************************************************)
(* The cleanup of the except clauses of the entry points.                  *)
(***************************************************************************)
\* a handler that deletes the promoted file before the side record
after_cleanup_file_early(step, handler, book_id) ==
  CASE step = "h_temp" ->
         IF handler \in {"http_400", "http_409"} THEN "done" ELSE "h_book"
    [] step = "h_book" -> "h_file"
    [] step = "h_file" -> IF book_id = 0 THEN "done" ELSE "h_side"
    [] OTHER -> "done"

\* the statements of an except clause in the order they are written:
\* cleanup_temp_file (upload_book), then inside `if book_id is not None`
\* delete_book and the side record, then delete_stored_file, then raise
after_cleanup(step, handler, book_id) ==
  CASE step = "h_temp" ->
         IF handler \in {"http_400", "http_409"} THEN "done" ELSE "h_book"
    [] step = "h_book" -> IF book_id = 0 THEN "h_file" ELSE "h_side"
    [] step = "h_side" -> "h_file"
    [] OTHER -> "done"

\* the except clause goes on to its next statement, or raises
Resume(r, step) ==
  LET following == after_cleanup(step, r.handler, r.book_id)
  IN IF following = "done" THEN Finish(r, Reported(r))
     ELSE [r EXCEPT !.pc = following]

\* upload_book: every except clause starts with cleanup_temp_file(temp_path)
CleanupTemp(p) ==
  LET r == run[p]
      present == r.temp_path # 0 /\ r.temp_path \in temp_files
  IN /\ r.pc = "h_temp"
     /\ \E rm_ok \in Outcomes(r) :
          LET r1 == IF present THEN Log(r, "cleanup_temp_file", rm_ok) ELSE r
          IN /\ temp_files' = cleanup_temp_file(temp_files, r.temp_path, rm_ok)
             /\ run' = [run EXCEPT ![p] = Resume(r1, "h_temp")]
     /\ UNCHANGED <<s3_enabled, books, next_id, vectors, pdfs, parsed_local,
                    parsed_s3, started, vvars>>

\* delete_book called without the try/except around it
cleanup_delete_book_unguarded(ok) == IF ok THEN "deleted" ELSE "raised"

\* try: await book_repository.delete_book(book_id)
\* except Exception as cleanup_error: logger.error(...)
cleanup_delete_book(ok) == IF ok THEN "deleted" ELSE "logged"

\* if book_id is not None: delete_book ...
CleanupBook(p) ==
  LET r == run[p]
  IN /\ r.pc = "h_book"
     /\ IF r.book_id = 0
        THEN /\ books' = books
             /\ run' = [run EXCEPT ![p] = Resume(r, "h_book")]
        ELSE \E ok \in Outcomes(r) :
               LET out == cleanup_delete_book(ok)
                   r1 == Log(r, "delete_book", ok)
               IN /\ books' = IF out = "deleted"
                              THEN {b \in books : b.id # r.book_id}
                              ELSE books
                  /\ run' = [run EXCEPT ![p] =
                       IF out = "raised"
                       THEN Finish(r1, ErrorResult("DatabaseError",
                                                   "DatabaseError", 0))
                       ELSE Resume(r1, "h_book")]
     /\ UNCHANGED <<s3_enabled, next_id, vectors, pdfs, temp_files,
                    parsed_local, parsed_s3, started, vvars>>

\* ... delete_parsed_result_from_s3(book_id): True at once when S3 is disabled,
\* False on ClientError.  index_local_pdf calls it only if settings.s3_enabled.
CleanupSide(p) ==
  LET r == run[p]
      called == s3_enabled \/ r.entry = "upload_book"
  IN /\ r.pc = "h_side"
     /\ \E ok \in Outcomes(r) :
          LET res == ~s3_enabled \/ ok
          IN /\ parsed_s3' = IF s3_enabled /\ ok
                             THEN parsed_s3 \ {r.book_id}
                             ELSE parsed_s3
             /\ run' = [run EXCEPT ![p] =
                  Resume(IF called
                         THEN Log(r, "delete_parsed_result_from_s3", res)
                         ELSE r, "h_side")]
     /\ UNCHANGED <<s3_enabled, books, next_id, vectors, pdfs, temp_files,
                    parsed_local, started, vvars>>

\* delete_stored_file: an s3:// locator is deleted from the bucket (False on
\* ClientError), a local path from disk (False if it is absent or on OSError)
delete_stored_file(path, ok) ==
  IF path.backend = "s3" THEN ok
  ELSE path \in pdfs /\ ok

\* if stored_path: delete_stored_file(stored_path); then the error is raised
CleanupFile(p) ==
  LET r == run[p]
  IN /\ r.pc = "h_file"
     /\ IF r.stored_path = NoPath
        THEN /\ pdfs' = pdfs
             /\ run' = [run EXCEPT ![p] = Resume(r, "h_file")]
        ELSE \E ok \in Outcomes(r) :
               LET res == delete_stored_file(r.stored_path, ok)
                   r1 == Log(r, "delete_stored_file", res)
               IN /\ pdfs' = IF res THEN pdfs \ {r.stored_path} ELSE pdfs
                  /\ run' = [run EXCEPT ![p] = Resume(r1, "h_file")]
     /\ UNCHANGED <<s3_enabled, books, next_id, vectors, temp_files,
                    parsed_local, parsed_s3, started, vvars>>

(***************************************************************************)
(* The delete request (api/routes/books.py, delete_book): DELETE           *)
(* /books/{book_id}.  A request is served by a task like an upload is, and *)
(* its steps interleave with the steps of the pipeline runs.               *)
(***************************************************************************)
\* DeleteResponse(deleted=True)
DeletedResult(id) == [NoResult EXCEPT !.status = "deleted", !.book_id = id]

\* HTTPException(status_code=404, detail={"error": {"code": "BOOK_NOT_FOUND"}})
BookNotFound == ErrorResult("HTTPException", "BOOK_NOT_FOUND", 404)

\* a route that gives up when the vectors cannot be deleted
on_delete_chunks_failure_raise(ok) == IF ok THEN "continue" ELSE "raise"

\* try: delete_chunks_by_book_id(book_id)
\* except Exception as e: logger.error(...)   # Continue with deletion
on_delete_chunks_failure(ok) == "continue"

StartDelete(p) ==
  /\ run[p].pc = "idle"
  /\ p = started + 1
  /\ \E id \in BookIds :
       run' = [run EXCEPT ![p] =
         [IdleRun EXCEPT !.entry = "delete_book", !.uid = started + 1,
                         !.book_id = id, !.pc = "d_get"]]
  /\ started' = started + 1
  /\ UNCHANGED <<s3_enabled, books, next_id, vectors, pdfs, temp_files,
                 parsed_local, parsed_s3, vvars>>

\* book = await book_repository.get_book(book_id); if book is None: 404
DeleteGet(p) ==
  LET r == run[p]
      found == {b \in books : b.id = r.book_id}
  IN /\ r.pc = "d_get"
     /\ \E db_ok \in Outcomes(r) :
          run' = [run EXCEPT ![p] =
            IF ~db_ok
            THEN Finish(Log(r, "get_book", FALSE),
                        ErrorResult("DatabaseError", "DatabaseError", 500))
            ELSE IF found = {}
            THEN Finish(Log(r, "get_book", TRUE), BookNotFound)
            ELSE [Log(r, "get_book", TRUE) EXCEPT
                    !.stored_path = (CHOOSE b \in found : TRUE).file_path,
                    !.pc = "d_chunks"]]
     /\ UNCHANGED <<s3_enabled, books, next_id, vectors, pdfs, temp_files,
                    parsed_local, parsed_s3, started, vvars>>

\* # Delete from Qdrant first
DeleteChunks(p) ==
  LET r == run[p]
  IN /\ r.pc = "d_chunks"
     /\ \E ok \in Outcomes(r) :
          LET r1 == Log(r, "delete_chunks_by_book_id", ok)
          IN /\ vectors' = IF ok THEN [vectors EXCEPT ![r.book_id] = 0]
                           ELSE vectors
             /\ run' = [run EXCEPT ![p] =
                  IF on_delete_chunks_failure(ok) = "continue"
                  THEN [r1 EXCEPT !.pc = "d_book"]
                  ELSE Finish(r1, ErrorResult("VectorStoreError",
                                              "VectorStoreError", 500))]
     /\ UNCHANGED <<s3_enabled, books, next_id, pdfs, temp_files, parsed_local,
                    parsed_s3, started, vvars>>

\* deleted = await book_repository.delete_book(book_id); if not deleted: 404
DeleteRecord(p) ==
  LET r == run[p]
      deleted == \E b \in books : b.id = r.book_id
  IN /\ r.pc = "d_book"
     /\ \E db_ok \in Outcomes(r) :
          IF ~db_ok
          THEN /\ books' = books
               /\ run' = [run EXCEPT ![p] =
                    Finish(Log(r, "delete_book", FALSE),
                           ErrorResult("DatabaseError", "DatabaseError", 500))]
          ELSE /\ books' = {b \in books : b.id # r.book_id}
               /\ run' = [run EXCEPT ![p] =
                    IF deleted
                    THEN [Log(r, "delete_book", TRUE) EXCEPT !.pc = "d_file"]
                    ELSE Finish(Log(r, "delete_book", FALSE), BookNotFound)]
     /\ UNCHANGED <<s3_enabled, next_id, vectors, pdfs, temp_files,
                    parsed_local, parsed_s3, started, vvars>>

\* file_path = book.get("file_path"); if file_path: delete_stored_file(...)
DeleteFile(p) ==
  LET r == run[p]
  IN /\ r.pc = "d_file"
     /\ IF r.stored_path = NoPath
        THEN /\ pdfs' = pdfs
             /\ run' = [run EXCEPT ![p].pc = "d_side"]
        ELSE \E ok \in Outcomes(r) :
               LET res == delete_stored_file(r.stored_path, ok)
               IN /\ pdfs' = IF res THEN pdfs \ {r.stored_path} ELSE pdfs
                  /\ run' = [run EXCEPT ![p] =
                       [Log(r, "delete_stored_file", res) EXCEPT !.pc = "d_side"]]
     /\ UNCHANGED <<s3_enabled, books, next_id, vectors, temp_files,
                    parsed_local, parsed_s3, started, vvars>>

\* delete_parsed_result_from_s3(book_id): True at once when S3 is disabled;
\* return DeleteResponse(deleted=True)
DeleteSide(p) ==
  LET r == run[p]
  IN /\ r.pc = "d_side"
     /\ \E ok \in Outcomes(r) :
          LET res == ~s3_enabled \/ ok
          IN /\ parsed_s3' = IF s3_enabled /\ ok
                             THEN parsed_s3 \ {r.book_id}
                             ELSE parsed_s3
             /\ run' = [run EXCEPT ![p] =
                  Finish(Log(r, "delete_parsed_result_from_s3", res),
                         DeletedResult(r.book_id))]
     /\ UNCHANGED <<s3_enabled, books, next_id, vectors, pdfs, temp_files,
                    parsed_local, started, vvars>>

DeleteNext ==
  \E p \in Procs :
    \/ StartDelete(p)
    \/ DeleteGet(p)
    \/ DeleteChunks(p)
    \/ DeleteRecord(p)
    \/ DeleteFile(p)
    \/ DeleteSide(p)

PipelineNext ==
  \E p \in Procs :
    \/ Start(p)
    \/ Validate(p)
    \/ DuplicateCheck(p)
    \/ SaveTemp(p)
    \/ Parse(p)
    \/ Backup(p)
    \/ PromoteS3(p)
    \/ PromoteLocal(p)
    \/ PromoteFallback(p)
    \/ CreateBook(p)
    \/ SaveSideLocalEntry(p)
    \/ SaveSideUpload(p)
    \/ Chunk(p)
    \/ Embed(p)
    \/ Store(p)
    \/ Stamp(p)
    \/ Rollback(p)
    \/ CleanupTemp(p)
    \/ CleanupBook(p)
    \/ CleanupSide(p)
    \/ CleanupFile(p)

(***************************************************************************)
(* The embedding client (services/embedder.py): generate_embeddings and    *)
(* _call_embeddings_api.  A chunk is named by its position in the input; a *)
(* text and its embedding vector are named by the chunk they come from.    *)
(***************************************************************************)
RECURSIVE Pow2(_)
Pow2(k) == IF k = 0 THEN 1 ELSE 2 * Pow2(k - 1)

\* chunks[i : i + batch_size], i counted from 0
Slice(chunks, i, size) == SubSeq(chunks, i + 1, Min(i + size, Len(chunks)))

\* zip(batch, embeddings): pairs up to the shorter of the two
Zip(batch, embeddings) ==
  [k \in 1..Min(Len(batch), Len(embeddings)) |->
     [chunk |-> batch[k], vector |-> embeddings[k]]]

\* response.data of a successful call: one embedding per input, in input order
Embeddings(texts) == texts

\* response.usage.total_tokens, one token per text in this model
Usage(texts) == Len(texts)

CallEvent(i, attempt, texts, outcome) ==
  [ev |-> "call", i |-> i, attempt |-> attempt, texts |-> texts,
   outcome |-> outcome, delay |-> 0]

SleepEvent(i, attempt, delay) ==
  [ev |-> "sleep", i |-> i, attempt |-> attempt, texts |-> <<>>,
   outcome |-> "none", delay |-> delay]

EmbedPending ==
  [status |-> "pending", message |-> "none", retries |-> 0,
   embedded_chunks |-> <<>>, total_tokens |-> 0]

\* EmbeddingResult(embedded_chunks, model_version, total_tokens)
EmbeddingResult(embedded, tokens) ==
  [EmbedPending EXCEPT !.status = "ok", !.embedded_chunks = embedded,
                       !.total_tokens = tokens]

\* EmbeddingError(message); retries is the number the message prints, 0 if none
EmbeddingError(message, retries) ==
  [EmbedPending EXCEPT !.status = "EmbeddingError", !.message = message,
                       !.retries = retries]

\* a delay that does not grow with the attempt
retry_delay_flat(base_delay, attempt) == base_delay

\* delay = settings.embedding_retry_base_delay * (2**attempt)
retry_delay(base_delay, attempt) == base_delay * Pow2(attempt)

\* a client that retries every provider error
on_provider_error_retry_all(outcome, attempt, max_retries) ==
  IF attempt < max_retries - 1 THEN "sleep" ELSE "raise_exhausted"

\* the except clauses of _call_embeddings_api
on_provider_error(outcome, attempt, max_retries) ==
  IF outcome = "RateLimitError"
  THEN IF attempt < max_retries - 1 THEN "sleep" ELSE "raise_exhausted"
  ELSE IF outcome = "APIError" THEN "raise_api_error"
  ELSE "raise_unexpected"

\* a loop that advances by one chunk whatever the batch size
next_batch_start_by_one(i, batch_size) == i + 1

\* for i in range(0, len(chunks), batch_size)
next_batch_start(i, batch_size) == i + batch_size

ProviderOutcomes == {"ok", "RateLimitError", "APIError", "Exception"}

EmbedInit ==
  /\ e_settings \in [embedding_batch_size : 1..MaxBatchSize,
                     embedding_max_retries : 1..MaxRetries,
                     embedding_retry_base_delay : 1..MaxBaseDelay,
                     openai_api_key : BOOLEAN]
  /\ e_chunks \in {[k \in 1..n |-> k] : n \in 0..MaxEmbedChunks}
  /\ e_pc = "start"
  /\ e_i = 0
  /\ e_attempt = 0
  /\ e_embedded = <<>>
  /\ e_tokens = 0
  /\ e_log = <<>>
  /\ e_result = EmbedPending

\* generate_embeddings: "if not chunks" returns the empty result, otherwise
\* the batch loop starts at i = 0
EmbedStart ==
  /\ e_pc = "start"
  /\ IF e_chunks = <<>>
     THEN /\ e_result' = EmbeddingResult(<<>>, 0)
          /\ e_pc' = "done"
     ELSE /\ e_pc' = "call"
          /\ UNCHANGED e_result
  /\ UNCHANGED <<e_settings, e_chunks, e_i, e_attempt, e_embedded, e_tokens,
                 e_log, pvars, vvars, xvars, uvars>>

\* one pass of the retry loop of _call_embeddings_api for the batch at e_i:
\* client.embeddings.create(input=texts), then either the rest of the body of
\* the batch loop of generate_embeddings or one of the except clauses
EmbedCall ==
  LET batch == Slice(e_chunks, e_i, e_settings.embedding_batch_size)
      texts == batch
      max_retries == e_settings.embedding_max_retries
  IN /\ e_pc = "call"
     /\ IF ~e_settings.openai_api_key
        THEN \* _get_openai_client raises before any request
             /\ e_result' = [EmbedPending EXCEPT !.status = "OpenAIKeyMissingError"]
             /\ e_pc' = "done"
             /\ UNCHANGED <<e_i, e_attempt, e_embedded, e_tokens, e_log>>
        ELSE \E outcome \in ProviderOutcomes :
               /\ e_log' = Append(e_log, CallEvent(e_i, e_attempt, texts, outcome))
               /\ IF outcome = "ok"
                  THEN LET embedded == e_embedded \o Zip(batch, Embeddings(texts))
                           tokens == e_tokens + Usage(texts)
                           i == next_batch_start(e_i, e_settings.embedding_batch_size)
                       IN /\ e_embedded' = embedded
                          /\ e_tokens' = tokens
                          /\ e_attempt' = 0
                          /\ IF i < Len(e_chunks)
                             THEN /\ e_i' = i
                                  /\ e_pc' = "call"
                                  /\ UNCHANGED e_result
                             ELSE /\ e_result' = EmbeddingResult(embedded, tokens)
                                  /\ e_pc' = "done"
                                  /\ UNCHANGED e_i
                  ELSE LET clause == on_provider_error(outcome, e_attempt, max_retries)
                       IN /\ UNCHANGED <<e_i, e_attempt, e_embedded, e_tokens>>
                          /\ IF clause = "sleep"
                             THEN e_pc' = "sleep" /\ UNCHANGED e_result
                             ELSE /\ e_pc' = "done"
                                  /\ e_result' =
                                       IF clause = "raise_exhausted"
                                       THEN EmbeddingError("Rate limit exceeded after",
                                                           max_retries)
                                       ELSE IF clause = "raise_api_error"
                                       THEN EmbeddingError("OpenAI API error", 0)
                                       ELSE EmbeddingError("Unexpected error", 0)
     /\ UNCHANGED <<e_settings, e_chunks, pvars, vvars, xvars, uvars>>

\* await asyncio.sleep(delay), then the next attempt
EmbedSleep ==
  /\ e_pc = "sleep"
  /\ e_log' = Append(e_log,
       SleepEvent(e_i, e_attempt,
                  retry_delay(e_settings.embedding_retry_base_delay, e_attempt)))
  /\ e_attempt' = e_attempt + 1
  /\ e_pc' = "call"
  /\ UNCHANGED <<e_settings, e_chunks, e_i, e_embedded, e_tokens, e_result,
                 pvars, vvars, xvars, uvars>>

EmbedNext == EmbedStart \/ EmbedCall \/ EmbedSleep

\* no generate_embeddings call under way
EmbedIdle ==
  /\ e_settings = [embedding_batch_size |-> 1, embedding_max_retries |-> 1,
                   embedding_retry_base_delay |-> 1, openai_api_key |-> TRUE]
  /\ e_chunks = <<>>
  /\ e_pc = "idle"
  /\ e_i = 0
  /\ e_attempt = 0
  /\ e_embedded = <<>>
  /\ e_tokens = 0
  /\ e_log = <<>>
  /\ e_result = EmbedPending

(***************************************************************************)
(* The parse client (services/parser.py): parse_pdf submits the file and   *)
(* polls the job.  Responses follow the service's contract: a 200/201      *)
(* submit response is JSON, a 200 poll response is JSON with well-formed   *)
(* pages.                                                                  *)
(***************************************************************************)
MAX_RETRIES == 1
RETRY_DELAY_SECONDS == 1
storm_parse_poll_interval == 2

STATE_COMPLETED == "COMPLETED"
TERMINAL_STATES == {"COMPLETED", "FAILED", "ERROR"}

\* states the poll endpoint may report, terminal or not ("" when state is absent)
JobStates == TERMINAL_STATES \cup {"PROCESSING", ""}

SubmitStatusCodes == {200, 201, 400, 500, 503}
PollStatusCodes == {200, 404, 500}

ParseEvent(ev, outcome, status_code, state, delay) ==
  [ev |-> ev, outcome |-> outcome, status_code |-> status_code,
   state |-> state, delay |-> delay]

\* client.post(...) returned or raised
SubmitOutcomes ==
  {ParseEvent("submit", "response", c, jid, 0) :
     c \in SubmitStatusCodes, jid \in {"jobId", ""}}
  \cup {ParseEvent("submit", exc, 0, "", 0) :
          exc \in {"TimeoutException", "HTTPError", "OSError"}}

\* client.get(...) returned or raised
PollOutcomes ==
  {ParseEvent("poll", "response", 200, st, 0) : st \in JobStates}
  \cup {ParseEvent("poll", "response", c, "", 0) : c \in PollStatusCodes \ {200}}
  \cup {ParseEvent("poll", exc, 0, "", 0) : exc \in {"TimeoutException", "HTTPError"}}

ParsePending ==
  [status |-> "pending", message |-> "none", status_code |-> 0, state |-> ""]

ParsedDocument == [ParsePending EXCEPT !.status = "ParsedDocument"]

PDFReadError == [ParsePending EXCEPT !.status = "PDFReadError"]

\* StormParseAPIError(message, status_code=...); state is the job state the
\* message names, if any
StormParseAPIError(message, status_code, state) ==
  [status |-> "StormParseAPIError", message |-> message,
   status_code |-> status_code, state |-> state]

\* a client that reports a failed read of the file as an API error
submit_decision_read_error_as_api(o, retry_count) ==
  IF o.outcome = "OSError" THEN "raise_http_error"
  ELSE IF o.outcome = "TimeoutException"
  THEN IF retry_count < MAX_RETRIES THEN "retry" ELSE "raise_timeout"
  ELSE IF o.outcome = "HTTPError"
  THEN IF retry_count < MAX_RETRIES THEN "retry" ELSE "raise_http_error"
  ELSE IF o.status_code >= 500 /\ retry_count < MAX_RETRIES THEN "retry"
  ELSE IF o.status_code \notin {200, 201} THEN "raise_status"
  ELSE IF o.state = "" THEN "raise_no_job_id"
  ELSE "job"

\* a client that also retries client errors
submit_decision_retry_client_errors(o, retry_count) ==
  IF o.outcome = "OSError" THEN "raise_pdf_read"
  ELSE IF o.outcome = "TimeoutException"
  THEN IF retry_count < MAX_RETRIES THEN "retry" ELSE "raise_timeout"
  ELSE IF o.outcome = "HTTPError"
  THEN IF retry_count < MAX_RETRIES THEN "retry" ELSE "raise_http_error"
  ELSE IF o.status_code >= 400 /\ retry_count < MAX_RETRIES THEN "retry"
  ELSE IF o.status_code \notin {200, 201} THEN "raise_status"
  ELSE IF o.state = "" THEN "raise_no_job_id"
  ELSE "job"

\* _submit_parse_request: what follows client.post; a response carries the
\* jobId of its body in the state field
submit_decision(o, retry_count) ==
  IF o.outcome = "OSError" THEN "raise_pdf_read"
  ELSE IF o.outcome = "TimeoutException"
  THEN IF retry_count < MAX_RETRIES THEN "retry" ELSE "raise_timeout"
  ELSE IF o.outcome = "HTTPError"
  THEN IF retry_count < MAX_RETRIES THEN "retry" ELSE "raise_http_error"
  ELSE IF o.status_code >= 500 /\ retry_count < MAX_RETRIES THEN "retry"
  ELSE IF o.status_code \notin {200, 201} THEN "raise_status"
  ELSE IF o.state = "" THEN "raise_no_job_id"
  ELSE "job"

\* a poll loop that knows no failed job
job_state_class_failed_ignored(state) ==
  IF state = STATE_COMPLETED THEN "completed" ELSE "continue"

\* _poll_for_result: the tests on data.get("state", "")
job_state_class(state) ==
  IF state = STATE_COMPLETED THEN "completed"
  ELSE IF state \in TERMINAL_STATES /\ state # STATE_COMPLETED THEN "failed"
  ELSE "continue"

\* a poll loop in which a timed out request is fatal
on_poll_exception_timeout_fatal(exc) == "raise"

\* _poll_for_result: except httpx.TimeoutException / except httpx.HTTPError
on_poll_exception(exc) == IF exc = "TimeoutException" THEN "sleep" ELSE "raise"

ParseInit ==
  /\ x_path \in {"file", "directory", "missing"}
  /\ x_max_polls \in 1..MaxPollAttempts
  /\ x_pc = "start"
  /\ x_retry_count = 0
  /\ x_poll_count = 0
  /\ x_log = <<>>
  /\ x_result = ParsePending

\* parse_pdf: path.exists(), path.is_file()
ParseStart ==
  /\ x_pc = "start"
  /\ IF x_path = "file"
     THEN x_pc' = "submit" /\ UNCHANGED x_result
     ELSE x_pc' = "done" /\ x_result' = PDFReadError
  /\ UNCHANGED <<x_path, x_max_polls, x_retry_count, x_poll_count, x_log,
                 pvars, vvars, evars, uvars>>

\* _submit_parse_request(file_path, language, retry_count): one client.post
Submit ==
  /\ x_pc = "submit"
  /\ \E o \in SubmitOutcomes :
       LET d == submit_decision(o, x_retry_count)
       IN /\ x_log' = Append(x_log, o)
          /\ IF d = "retry" THEN x_pc' = "submit_sleep" /\ UNCHANGED x_result
             ELSE IF d = "job" THEN x_pc' = "poll" /\ UNCHANGED x_result
             ELSE /\ x_pc' = "done"
                  /\ x_result' =
                       CASE d = "raise_pdf_read" -> PDFReadError
                         [] d = "raise_timeout" ->
                              StormParseAPIError("Storm Parse API timeout", 0, "")
                         [] d = "raise_http_error" ->
                              StormParseAPIError("Storm Parse API HTTP error", 0, "")
                         [] d = "raise_status" ->
                              StormParseAPIError("Storm Parse API error",
                                                 o.status_code, "")
                         [] OTHER ->
                              StormParseAPIError(
                                "Storm Parse API did not return jobId", 0, "")
  /\ UNCHANGED <<x_path, x_max_polls, x_retry_count, x_poll_count, pvars,
                 vvars, evars, uvars>>

\* await asyncio.sleep(RETRY_DELAY_SECONDS * (2**retry_count)), then
\* _submit_parse_request(file_path, language, retry_count + 1)
SubmitSleep ==
  /\ x_pc = "submit_sleep"
  /\ x_log' = Append(x_log,
       ParseEvent("sleep", "submit", 0, "",
                  RETRY_DELAY_SECONDS * Pow2(x_retry_count)))
  /\ x_retry_count' = x_retry_count + 1
  /\ x_pc' = "submit"
  /\ UNCHANGED <<x_path, x_max_polls, x_poll_count, x_result, pvars, vvars,
                 evars, uvars>>

\* one pass of the while loop of _poll_for_result up to its sleep: client.get,
\* the tests on the response, poll_count += 1
Poll ==
  /\ x_pc = "poll"
  /\ \E o \in PollOutcomes :
       LET d == IF o.outcome # "response" THEN on_poll_exception(o.outcome)
                ELSE IF o.status_code # 200 THEN "raise_status"
                ELSE job_state_class(o.state)
       IN /\ x_log' = Append(x_log, o)
          /\ IF d \in {"sleep", "continue"}
             THEN /\ x_poll_count' = x_poll_count + 1
                  /\ x_pc' = "poll_sleep"
                  /\ UNCHANGED x_result
             ELSE /\ x_pc' = "done"
                  /\ UNCHANGED x_poll_count
                  /\ x_result' =
                       CASE d = "completed" -> ParsedDocument
                         [] d = "failed" ->
                              StormParseAPIError("Storm Parse job failed with state",
                                                 0, o.state)
                         [] d = "raise_status" ->
                              StormParseAPIError("Storm Parse API poll error",
                                                 o.status_code, "")
                         [] OTHER ->
                              StormParseAPIError("Storm Parse API poll HTTP error",
                                                 0, "")
  /\ UNCHANGED <<x_path, x_max_polls, x_retry_count, pvars, vvars, evars, uvars>>

\* await asyncio.sleep(settings.storm_parse_poll_interval), then the test of
\* the while loop; leaving the loop raises the did-not-complete error
PollSleep ==
  /\ x_pc = "poll_sleep"
  /\ x_log' = Append(x_log,
       ParseEvent("sleep", "poll", 0, "", storm_parse_poll_interval))
  /\ IF x_poll_count < x_max_polls
     THEN x_pc' = "poll" /\ UNCHANGED x_result
     ELSE /\ x_pc' = "done"
          /\ x_result' = StormParseAPIError("did not complete within", 0, "")
  /\ UNCHANGED <<x_path, x_max_polls, x_retry_count, x_poll_count, pvars,
                 vvars, evars, uvars>>

ParseNext == ParseStart \/ Submit \/ SubmitSleep \/ Poll \/ PollSleep

\* no parse_pdf call under way
ParseIdle ==
  /\ x_path = "missing"
  /\ x_max_polls = 1
  /\ x_pc = "idle"
  /\ x_retry_count = 0
  /\ x_poll_count = 0
  /\ x_log = <<>>
  /\ x_result = ParsePending

(***************************************************************************)
(* The response mapping (services/parser.py, _parse_job_response): the     *)
(* JSON body of a COMPLETED poll becomes a ParsedDocument.  A body is      *)
(* whatever JSON the service sent: "pages" may be absent, null or a list,  *)
(* and an element of the list may be an object or some other JSON value.   *)
(***************************************************************************)
MaxPages == 3
PageContents == {"a", "b"}

\* an element of "pages": a JSON object with an optional pageNumber (an
\* integer or null) and a content, or a JSON value that is no object
PageObject(kind, n, content) ==
  [shape |-> "object", pageNumber_kind |-> kind, pageNumber |-> n,
   content |-> content]

NotAnObject ==
  [shape |-> "string", pageNumber_kind |-> "absent", pageNumber |-> 0,
   content |-> "a"]

PageRecords ==
  {PageObject("int", n, c) : n \in 1..MaxPages, c \in PageContents}
  \cup {PageObject(k, 0, c) : k \in {"absent", "null"}, c \in PageContents}
  \cup {NotAnObject}

ResponseBodies ==
  {[pages_kind |-> "list", pages |-> ps] : ps \in SeqsUpTo(PageRecords, MaxPages)}
  \cup {[pages_kind |-> k, pages |-> <<>>] : k \in {"absent", "null"}}

ParsedPage(page_number, content) ==
  [page_number |-> page_number, content |-> content]

ResponsePending ==
  [status |-> "pending", pages |-> <<>>, total_pages |-> 0]

ParsedDocumentOf(pages, total_pages) ==
  [status |-> "ParsedDocument", pages |-> pages, total_pages |-> total_pages]

\* raise StormParseAPIError(f"Invalid API response format: {e}", cause=e)
InvalidResponseFormat ==
  [ResponsePending EXCEPT !.status = "StormParseAPIError"]

\* an exception that no except clause of _parse_job_response names
Escaped(exc) == [ResponsePending EXCEPT !.status = exc]

\* list.sort(key=...) is stable: x goes behind every element whose key is not
\* greater than its own
RECURSIVE InsertByPageNumber(_, _)
InsertByPageNumber(sorted, x) ==
  IF sorted = <<>> THEN <<x>>
  ELSE IF sorted[Len(sorted)].page_number <= x.page_number
  THEN Append(sorted, x)
  ELSE Append(InsertByPageNumber(SubSeq(sorted, 1, Len(sorted) - 1), x),
              sorted[Len(sorted)])

RECURSIVE SortByPageNumber(_)
SortByPageNumber(pages) ==
  IF pages = <<>> THEN <<>>
  ELSE InsertByPageNumber(SortByPageNumber(SubSeq(pages, 1, Len(pages) - 1)),
                          pages[Len(pages)])

\* what building the ParsedPage of element idx (0-based) raises, if anything:
\* page.get on a value that is no dict is an AttributeError, a null
\* pageNumber fails the validation of page_number: int (a ValueError)
PageFailure(page) ==
  IF page.shape # "object" THEN "AttributeError"
  ELSE IF page.pageNumber_kind = "null" THEN "ValidationError"
  ELSE "none"

\* _parse_job_response(response_data)
parse_job_response(response_data) ==
  IF response_data.pages_kind = "null"
  THEN InvalidResponseFormat   \* enumerate(None): TypeError
  ELSE
    LET pages_data == response_data.pages
        failing == {i \in 1..Len(pages_data) : PageFailure(pages_data[i]) # "none"}
    IN IF failing # {}
       THEN LET first == CHOOSE i \in failing : \A k \in failing : i <= k
                exc == PageFailure(pages_data[first])
            IN IF exc \in {"KeyError", "TypeError", "ValueError", "ValidationError"}
               THEN InvalidResponseFormat
               ELSE Escaped(exc)
       ELSE LET pages ==
                  [i \in 1..Len(pages_data) |->
                     ParsedPage(IF pages_data[i].pageNumber_kind = "absent"
                                THEN (i - 1) + 1
                                ELSE pages_data[i].pageNumber,
                                pages_data[i].content)]
            IN ParsedDocumentOf(SortByPageNumber(pages), Len(pages))

ResponseInit ==
  /\ j_response \in ResponseBodies
  /\ j_result = ResponsePending

\* return _parse_job_response(data)
ParseJobResponse ==
  /\ j_result = ResponsePending
  /\ j_result' = parse_job_response(j_response)
  /\ UNCHANGED j_response

\* no _parse_job_response call under way
ResponseIdle ==
  /\ j_response = [pages_kind |-> "absent", pages |-> <<>>]
  /\ j_result = [ResponsePending EXCEPT !.status = "idle"]

(***************************************************************************)
(* The chunkers: chunk_text of services/chunker.py (token windows, used by *)
(* index_local_pdf) and chunk_text of services/sentence_chunker.py (used   *)
(* by upload_book).  A page content is described by what the chunkers ask  *)
(* of it: whether it is empty, whitespace only or text, and the number of  *)
(* tokens the encoding gives for it.  The encoding is byte-level: it gives *)
(* no token for the empty string only.                                     *)
(***************************************************************************)
CHUNK_SIZE == 1000
OVERLAP_SIZE == 100

MaxDocPages == 3
MaxPieces == 2
TextTokenCounts == {1, 50, 950, 1100}

Max(a, b) == IF a > b THEN a ELSE b

PageTexts ==
  {[kind |-> "empty", n_tokens |-> 0], [kind |-> "whitespace", n_tokens |-> 1]}
  \cup {[kind |-> "text", n_tokens |-> n] : n \in TextTokenCounts}

DocPage(page_number, content) ==
  [page_number |-> page_number, content |-> content]

\* documents as _parse_job_response builds them: pages in ascending order of
\* page_number, total_pages = len(pages)
Documents ==
  {[pages |-> ps, total_pages |-> Len(ps)] :
     ps \in {q \in SeqsUpTo({DocPage(n, t) : n \in 1..(MaxDocPages + 1),
                                             t \in PageTexts}, MaxDocPages) :
               \A i, k \in 1..Len(q) : i < k => q[i].page_number < q[k].page_number}}

ChunkOf(index, content, page_number, token_count) ==
  [index |-> index, content |-> content, page_number |-> page_number,
   token_count |-> token_count]

ChunkedDocument(chunks, total_chunks, source_pages) ==
  [status |-> "ChunkedDocument", chunks |-> chunks,
   total_chunks |-> total_chunks, source_pages |-> source_pages]

ChunkPending ==
  [status |-> "pending", chunks |-> <<>>, total_chunks |-> 0, source_pages |-> 0]

ChunkNotCalled == [ChunkPending EXCEPT !.status = "idle"]

\* tokenize(text): the token ids of a text, here numbered within the text
tokenize(content) == [k \in 1..content.n_tokens |-> k]

\* the bounds of the Python slice seq[a:b] of a sequence of length n
PySliceBound(k, n) == IF k < 0 THEN Max(n + k, 0) ELSE Min(k, n)

PySlice(a, b, n) ==
  LET lo == PySliceBound(a, n)
      hi == PySliceBound(b, n)
  IN [from |-> lo, to |-> Max(lo, hi)]

\* seq[k] of Python: 0-based, negative k counts from the end
PyIndex(seq, k) == IF k < 0 THEN seq[Len(seq) + k + 1] ELSE seq[k + 1]

\* chunker.py, the loop over parsed_document.pages: all_tokens and
\* token_page_map; a token is named by the page position and its id
RECURSIVE flat_tokens(_, _)
flat_tokens(pages, position) ==
  IF pages = <<>> THEN [all_tokens |-> <<>>, token_page_map |-> <<>>]
  ELSE
    LET page == Head(pages)
        rest == flat_tokens(Tail(pages), position + 1)
        page_tokens == tokenize(page.content)
    IN IF page.content.kind = "empty" THEN rest   \* if not page.content
       ELSE IF page_tokens = <<>> THEN rest       \* if not page_tokens
       ELSE [all_tokens |->
               [k \in 1..Len(page_tokens) |-> <<position, page_tokens[k]>>]
               \o rest.all_tokens,
             token_page_map |->
               [k \in 1..Len(page_tokens) |-> page.page_number]
               \o rest.token_page_map]

\* a window that is not capped at CHUNK_SIZE
chunk_end_uncapped(start_token, total_tokens) == total_tokens

\* end_token = min(start_token + CHUNK_SIZE, total_tokens)
chunk_end(start_token, total_tokens) ==
  Min(start_token + CHUNK_SIZE, total_tokens)

\* a step that starts the next window where the last one started
next_start_token_no_progress(end_token) == end_token - CHUNK_SIZE

\* windows laid end to end, without overlap
next_start_token_no_overlap(end_token) == end_token

\* start_token = end_token - OVERLAP_SIZE
next_start_token(end_token) == end_token - OVERLAP_SIZE

\* the page of the last token of the window
chunk_page_number_of_last_token(token_page_map, start_token, end_token) ==
  PyIndex(token_page_map, end_token - 1)

\* page_number = token_page_map[start_token]
chunk_page_number(token_page_map, start_token, end_token) ==
  PyIndex(token_page_map, start_token)

\* chunk_index += 1
next_chunk_index(chunk_index) == chunk_index + 1

\* chunker.py, the while loop; the content of a chunk,
\* detokenize(all_tokens[start_token:end_token]), is named by the bounds of
\* its slice of all_tokens
RECURSIVE chunk_loop(_, _, _, _)
chunk_loop(token_page_map, total_tokens, start_token, chunk_index) ==
  IF ~(start_token < total_tokens) THEN <<>>
  ELSE
    LET end_token == chunk_end(start_token, total_tokens)
        chunk_tokens == PySlice(start_token, end_token, total_tokens)
        chunk ==
          ChunkOf(chunk_index, chunk_tokens,
                  chunk_page_number(token_page_map, start_token, end_token),
                  chunk_tokens.to - chunk_tokens.from)
        start_next == next_start_token(end_token)
    IN <<chunk>> \o
         (IF end_token >= total_tokens THEN <<>>
          ELSE IF start_next >= total_tokens - OVERLAP_SIZE THEN <<>>
          ELSE chunk_loop(token_page_map, total_tokens, start_next,
                          next_chunk_index(chunk_index)))

\* chunker.chunk_text(parsed_document)
chunk_text(parsed_document) ==
  IF parsed_document.pages = <<>>
  THEN ChunkedDocument(<<>>, 0, parsed_document.total_pages)
  ELSE
    LET flat == flat_tokens(parsed_document.pages, 1)
        total_tokens == Len(flat.all_tokens)
    IN IF total_tokens = 0
       THEN ChunkedDocument(<<>>, 0, parsed_document.total_pages)
       ELSE LET chunks == chunk_loop(flat.token_page_map, total_tokens, 0, 0)
            IN ChunkedDocument(chunks, Len(chunks), parsed_document.total_pages)

\* what RecursiveCharacterTextSplitter.split_text may give for one text: up
\* to MaxPieces pieces, each with text or blank
PieceKinds == {"text", "blank"}
SplitOutcomes == SeqsUpTo(PieceKinds, MaxPieces)

\* splitter.split_text(content): the pieces of the content of the page at
\* the given position of the document
split_text(position, outcome) ==
  [k \in 1..Len(outcome) |->
     [source |-> position, piece |-> k, kind |-> outcome[k]]]

\* str.strip(): a blank piece becomes the empty string
strip(piece) ==
  [piece EXCEPT !.kind = IF piece.kind = "blank" THEN "empty" ELSE piece.kind]

\* count_tokens(text) of a text that is not empty
count_tokens(piece) == IF piece.kind = "empty" THEN 0 ELSE 1

\* sentence_chunker.py: page_contents, with the position of each page
page_contents_of(pages) ==
  LET kept == {i \in 1..Len(pages) : pages[i].content.kind = "text"}
      RECURSIVE Ordered(_, _)
      Ordered(i, acc) ==
        IF i > Len(pages) THEN acc
        ELSE Ordered(i + 1,
                     IF i \in kept
                     THEN Append(acc, [position |-> i,
                                       page_number |-> pages[i].page_number])
                     ELSE acc)
  IN Ordered(1, <<>>)

\* a counter that advances by two
sentence_next_chunk_index_by_two(chunk_index) == chunk_index + 2

\* chunk_index += 1 of sentence_chunker.py
sentence_next_chunk_index(chunk_index) == chunk_index + 1

\* every chunk labelled with the first page that has text
sentence_chunk_page_number_of_first(page_contents, i) ==
  page_contents[1].page_number

\* page_number=page_number of sentence_chunker.py
sentence_chunk_page_number(page_contents, i) == page_contents[i].page_number

\* sentence_chunker.py, the loop over page_chunks
RECURSIVE page_chunks_loop(_, _, _)
page_chunks_loop(page_chunks, page_number, chunk_index) ==
  IF page_chunks = <<>> THEN <<>>
  ELSE
    LET chunk_content == strip(Head(page_chunks))
    IN IF chunk_content.kind = "empty"
       THEN page_chunks_loop(Tail(page_chunks), page_number, chunk_index)
       ELSE <<ChunkOf(chunk_index, chunk_content, page_number,
                      count_tokens(chunk_content))>>
            \o page_chunks_loop(Tail(page_chunks), page_number,
                                sentence_next_chunk_index(chunk_index))

\* sentence_chunker.py, the loop over page_contents
RECURSIVE page_contents_loop(_, _, _, _)
page_contents_loop(page_contents, outcomes, i, chunk_index) ==
  IF i > Len(page_contents) THEN <<>>
  ELSE
    LET page_chunks == split_text(page_contents[i].position, outcomes[i])
        chunks ==
          page_chunks_loop(page_chunks,
                           sentence_chunk_page_number(page_contents, i),
                           chunk_index)
        index_next ==
          IF chunks = <<>> THEN chunk_index
          ELSE sentence_next_chunk_index(chunks[Len(chunks)].index)
    IN chunks \o page_contents_loop(page_contents, outcomes, i + 1, index_next)

\* sentence_chunker.chunk_text(parsed_document), given what split_text returns
\* for each page of page_contents
sentence_chunk_text(parsed_document, outcomes) ==
  IF parsed_document.pages = <<>>
  THEN ChunkedDocument(<<>>, 0, parsed_document.total_pages)
  ELSE
    LET page_contents == page_contents_of(parsed_document.pages)
    IN IF page_contents = <<>>
       THEN ChunkedDocument(<<>>, 0, parsed_document.total_pages)
       ELSE LET chunks == page_contents_loop(page_contents, outcomes, 1, 0)
            IN ChunkedDocument(chunks, Len(chunks), parsed_document.total_pages)

\* a document, about to be handed to each of the two chunkers
ChunkInit ==
  /\ c_document \in Documents
  /\ c_result = ChunkPending
  /\ s_result = ChunkPending

\* chunked_doc = chunk_text(parse_result.document) of index_local_pdf
ChunkText ==
  /\ c_result = ChunkPending
  /\ c_result' = chunk_text(c_document)
  /\ UNCHANGED <<c_document, s_result>>

\* chunked_doc = chunk_text(parse_result.document) of upload_book
SentenceChunkText ==
  /\ s_result = ChunkPending
  /\ \E outcomes \in
          [1..Len(page_contents_of(c_document.pages)) -> SplitOutcomes] :
       s_result' = sentence_chunk_text(c_document, outcomes)
  /\ UNCHANGED <<c_document, c_result>>

\* no chunk_text call under way
ChunkIdle ==
  /\ c_document = [pages |-> <<>>, total_pages |-> 0]
  /\ c_result = ChunkNotCalled
  /\ s_result = ChunkNotCalled

(***************************************************************************)
(* The storage functions on their own (services/storage.py):               *)
(* delete_stored_file, delete_parsed_result_from_s3 and save_parsed_result *)
(* called on a store that holds any of the files, with every outcome of    *)
(* the disk and of the bucket.  d_log records each call: its argument, the *)
(* calls it made, what it returned and the store before and after.         *)
(***************************************************************************)
MaxStorageCalls == 2

StoredLocators == {LocalPath(1), S3Uri(1)}

\* parsed/<book_id>.json in the bucket
ParsedKey(book_id) == [backend |-> "parsed", n |-> book_id]

StoredFiles == <<pdfs, parsed_local, parsed_s3>>

\* fault: whether the disk or the bucket raised an error in a delete, the
\* bucket in a save; local: how the local save of a save went
StorageCall(op, arg, local, fault, calls, result, after) ==
  [op |-> op, arg |-> arg, local |-> local, fault |-> fault, calls |-> calls,
   result |-> result, before |-> StoredFiles, after |-> after]

\* save_parsed_result_to_local: the file was written, the write failed
\* (caught, None), or parsed_dir.mkdir raised OSError
SaveLocalOutcomes == {"saved", "none", "mkdir_error"}

\* delete_parsed_result_from_s3(book_id): True if S3 is disabled, else
\* whether delete_object went through
delete_parsed_result_from_s3(ok) == ~s3_enabled \/ ok

StorageInit ==
  /\ s3_enabled \in BOOLEAN
  /\ pdfs \in SUBSET StoredLocators
  /\ parsed_local \in SUBSET {ByBook(id) : id \in BookIds}
  /\ parsed_s3 \in SUBSET BookIds
  /\ d_log = <<>>

\* delete_stored_file(file_path); ok: os.remove / delete_object raised nothing
DeleteStoredFile ==
  /\ Len(d_log) < MaxStorageCalls
  /\ \E path \in StoredLocators, ok \in BOOLEAN :
       LET res == delete_stored_file(path, ok)
           pdfs_after == IF res THEN pdfs \ {path} ELSE pdfs
       IN /\ pdfs' = pdfs_after
          /\ d_log' = Append(d_log,
               StorageCall("delete_stored_file", path, "n/a",
                           IF ok THEN "none" ELSE "error",
                           <<IF path.backend = "s3" THEN "delete_file_from_s3"
                             ELSE "delete_file_from_local">>,
                           IF res THEN "True" ELSE "False",
                           <<pdfs_after, parsed_local, parsed_s3>>))
  /\ UNCHANGED <<s3_enabled, parsed_local, parsed_s3>>

\* delete_parsed_result_from_s3(book_id); ok: delete_object raised nothing
DeleteParsedResult ==
  /\ Len(d_log) < MaxStorageCalls
  /\ \E book_id \in BookIds, ok \in BOOLEAN :
       LET res == delete_parsed_result_from_s3(ok)
           s3_after == IF s3_enabled /\ ok THEN parsed_s3 \ {book_id}
                       ELSE parsed_s3
       IN /\ parsed_s3' = s3_after
          /\ d_log' = Append(d_log,
               StorageCall("delete_parsed_result_from_s3", ParsedKey(book_id),
                           "n/a", IF ok THEN "none" ELSE "error",
                           IF s3_enabled THEN <<"delete_object">> ELSE <<>>,
                           IF res THEN "True" ELSE "False",
                           <<pdfs, parsed_local, s3_after>>))
  /\ UNCHANGED <<s3_enabled, pdfs, parsed_local>>

\* save_parsed_result(book_id, response_data)
SaveParsedResult ==
  /\ Len(d_log) < MaxStorageCalls
  /\ \E book_id \in BookIds, out \in SaveLocalOutcomes, s3_ok \in BOOLEAN :
       LET fault == IF s3_ok THEN "none" ELSE "error"
           local_after == IF out = "saved"
                          THEN parsed_local \cup {ByBook(book_id)}
                          ELSE parsed_local
       IN IF out = "mkdir_error"
          THEN /\ d_log' = Append(d_log,
                    StorageCall("save_parsed_result", ParsedKey(book_id), out,
                                fault, <<"save_parsed_result_to_local">>,
                                "OSError", StoredFiles))
               /\ UNCHANGED <<parsed_local, parsed_s3>>
          ELSE LET s3_after == IF s3_enabled /\ s3_ok
                               THEN parsed_s3 \cup {book_id} ELSE parsed_s3
                   res == save_parsed_result(out = "saved", s3_ok)
               IN /\ parsed_local' = local_after
                  /\ parsed_s3' = s3_after
                  /\ d_log' = Append(d_log,
                       StorageCall("save_parsed_result", ParsedKey(book_id),
                                   out, fault,
                                   IF s3_enabled
                                   THEN <<"save_parsed_result_to_local",
                                          "save_parsed_result_to_s3">>
                                   ELSE <<"save_parsed_result_to_local">>,
                                   res, <<pdfs, local_after, s3_after>>))
  /\ UNCHANGED <<s3_enabled, pdfs>>

\* no storage function called on its own
StorageIdle == d_log = <<>>

(***************************************************************************)
(* The batch runner (scripts/batch_upload.py): main validates --parallel,  *)
(* run_batch_upload scans the source directory and runs index_local_pdf    *)
(* over its files, one after the other or as tasks behind a semaphore.     *)
(* What an index_local_pdf call returns or raises is the environment of    *)
(* the runner; a file is named by its position in the sorted scan.         *)
(***************************************************************************)
MAX_CONCURRENCY == 10

MaxFiles == 3

\* values given to --parallel
RequestedParallel == {0, 1, 2, 3, MAX_CONCURRENCY, MAX_CONCURRENCY + 1}

BatchArgs ==
  [parallel : RequestedParallel, dry_run : BOOLEAN, skip_existing : BOOLEAN,
   n_files : 0..MaxFiles]

\* what index_local_pdf gives: a result, or an exception; EmptyMessageError
\* stands for an exception e whose str(e) is the empty string
IndexOutcomes(skip_existing) ==
  {"indexed", "InvalidFileFormatError", "PDFReadError", "DuplicateBookError",
   "IndexingError", "Exception", "EmptyMessageError"}
  \cup (IF skip_existing THEN {"skipped"} ELSE {})

\* ProcessingTask(pdf_path, index, result, error): result is "none" for None,
\* error is "none" for None and "" for an empty message
ProcessingTask(index, result, error) ==
  [index |-> index, result |-> result, error |-> error]

\* str(e)
str(exc) == IF exc = "EmptyMessageError" THEN "" ELSE "message"

\* a wrapper that reports the lost race as a failure
process_file_with_semaphore_race_fails(index, outcome, skip_existing) ==
  IF outcome \in {"indexed", "skipped"}
  THEN ProcessingTask(index, outcome, "none")
  ELSE ProcessingTask(index, "none", str(outcome))

\* process_file_with_semaphore: the return statement and the except clauses
\* around index_local_pdf
process_file_with_semaphore(index, outcome, skip_existing) ==
  IF outcome \in {"indexed", "skipped"}
  THEN ProcessingTask(index, outcome, "none")
  ELSE IF outcome = "DuplicateBookError"
  THEN IF skip_existing THEN ProcessingTask(index, "skipped", "none")
       ELSE ProcessingTask(index, "none", str(outcome))
  ELSE ProcessingTask(index, "none", str(outcome))

\* process_single_file: the BatchIndexingResult it returns, "none" for None
process_single_file(outcome, skip_existing) ==
  IF outcome \in {"indexed", "skipped"} THEN outcome
  ELSE IF outcome = "DuplicateBookError" /\ skip_existing THEN "skipped"
  ELSE "none"

\* a sequential loop that does not count a failed file
sequential_count_failures_dropped(indexing_result) ==
  IF indexing_result = "none" THEN "none"
  ELSE IF indexing_result = "skipped" THEN "skipped"
  ELSE "success"

\* _run_sequential_upload: the counter a file is added to
sequential_count(indexing_result) ==
  IF indexing_result = "none" THEN "failed"
  ELSE IF indexing_result = "skipped" THEN "skipped"
  ELSE "success"

\* _run_parallel_upload: the counter a file is added to; the tests are on the
\* truth value of task_result.error and of task_result.result
parallel_count(task_result) ==
  IF task_result.error \notin {"none", ""} THEN "failed"
  ELSE IF task_result.result = "skipped" THEN "skipped"
  ELSE IF task_result.result # "none" THEN "success"
  ELSE "failed"

\* a main that passes --parallel on as given
validated_parallel_unlimited(parallel) == parallel

\* main: if args.parallel > MAX_CONCURRENCY: args.parallel = MAX_CONCURRENCY
validated_parallel(parallel) ==
  IF parallel > MAX_CONCURRENCY THEN MAX_CONCURRENCY ELSE parallel

\* a semaphore that never blocks
semaphore_locked_never(value) == FALSE

\* asyncio.Semaphore.locked(): acquire waits while the value is zero
semaphore_locked(value) == value = 0

EmptyBatchResult ==
  [total |-> 0, success |-> 0, failed |-> 0, skipped |-> 0,
   success_list |-> <<>>, failed_list |-> <<>>, skipped_list |-> <<>>]

\* result.<counter> += 1; result.<counter>_list.append(...)
Counted(result, counter, index) ==
  CASE counter = "success" ->
         [result EXCEPT !.success = @ + 1, !.success_list = Append(@, index)]
    [] counter = "failed" ->
         [result EXCEPT !.failed = @ + 1, !.failed_list = Append(@, index)]
    [] counter = "skipped" ->
         [result EXCEPT !.skipped = @ + 1, !.skipped_list = Append(@, index)]
    [] OTHER -> result

\* a file of the scan whose index_local_pdf call has not begun
CreatedTask(index) ==
  [state |-> "created", calls |-> 0,
   task |-> ProcessingTask(index, "none", "none")]

InFlight == {i \in DOMAIN b_task : b_task[i].state = "in_flight"}

BatchInit ==
  /\ b_args \in BatchArgs
  /\ b_pc = "main"
  /\ b_parallel = b_args.parallel
  /\ b_semaphore = 0
  /\ b_task = [i \in 1..b_args.n_files |-> CreatedTask(i)]
  /\ b_completed = <<>>
  /\ b_result = EmptyBatchResult

\* main: the checks on args.parallel
BatchMain ==
  /\ b_pc = "main"
  /\ IF b_args.parallel < 1
     THEN b_pc' = "usage_error" /\ UNCHANGED b_parallel   \* parser.error(...)
     ELSE /\ b_parallel' = validated_parallel(b_args.parallel)
          /\ b_pc' = "run_batch_upload"
  /\ UNCHANGED <<b_args, b_semaphore, b_task, b_completed, b_result>>

\* run_batch_upload up to the choice of the mode; _run_parallel_upload
\* creates its semaphore and its tasks
RunBatchUpload ==
  /\ b_pc = "run_batch_upload"
  /\ b_result' = [b_result EXCEPT !.total = b_args.n_files]
  /\ IF b_args.n_files = 0 \/ b_args.dry_run
     THEN b_pc' = "done" /\ UNCHANGED b_semaphore
     ELSE IF b_parallel > 1
     THEN b_pc' = "parallel" /\ b_semaphore' = b_parallel
     ELSE b_pc' = "sequential" /\ UNCHANGED b_semaphore
  /\ UNCHANGED <<b_args, b_parallel, b_task, b_completed>>

\* _run_sequential_upload: process_single_file calls index_local_pdf for the
\* next file of the scan
SequentialCall ==
  /\ b_pc = "sequential"
  /\ InFlight = {}
  /\ \E i \in DOMAIN b_task :
       /\ b_task[i].state = "created"
       /\ \A k \in DOMAIN b_task : k < i => b_task[k].state = "counted"
       /\ b_task' = [b_task EXCEPT ![i].state = "in_flight",
                                   ![i].calls = @ + 1]
  /\ UNCHANGED <<b_args, b_pc, b_parallel, b_semaphore, b_completed, b_result>>

\* index_local_pdf ends; process_single_file returns and the loop body counts
SequentialReturn ==
  /\ b_pc = "sequential"
  /\ \E i \in InFlight, outcome \in IndexOutcomes(b_args.skip_existing) :
       LET indexing_result == process_single_file(outcome, b_args.skip_existing)
       IN /\ b_task' = [b_task EXCEPT
               ![i].state = "counted",
               ![i].task = ProcessingTask(i, indexing_result, "none")]
          /\ b_result' = Counted(b_result, sequential_count(indexing_result), i)
  /\ UNCHANGED <<b_args, b_pc, b_parallel, b_semaphore, b_completed>>

\* process_file_with_semaphore: async with semaphore, then index_local_pdf is
\* called
TaskAcquire ==
  /\ b_pc = "parallel"
  /\ ~semaphore_locked(b_semaphore)
  /\ \E i \in DOMAIN b_task :
       /\ b_task[i].state = "created"
       /\ b_task' = [b_task EXCEPT ![i].state = "in_flight",
                                   ![i].calls = @ + 1]
  /\ b_semaphore' = b_semaphore - 1
  /\ UNCHANGED <<b_args, b_pc, b_parallel, b_completed, b_result>>

\* index_local_pdf ends; the task returns its ProcessingTask and leaves the
\* semaphore
TaskReturn ==
  /\ b_pc = "parallel"
  /\ \E i \in InFlight, outcome \in IndexOutcomes(b_args.skip_existing) :
       /\ b_task' = [b_task EXCEPT
            ![i].state = "returned",
            ![i].task = process_file_with_semaphore(i, outcome,
                                                    b_args.skip_existing)]
       /\ b_completed' = Append(b_completed, i)
  /\ b_semaphore' = b_semaphore + 1
  /\ UNCHANGED <<b_args, b_pc, b_parallel, b_result>>

\* _run_parallel_upload: one pass of the loop over asyncio.as_completed(tasks)
Aggregate ==
  /\ b_pc = "parallel"
  /\ b_completed # <<>>
  /\ LET i == Head(b_completed)
     IN /\ b_task' = [b_task EXCEPT ![i].state = "counted"]
        /\ b_result' = Counted(b_result, parallel_count(b_task[i].task), i)
  /\ b_completed' = Tail(b_completed)
  /\ UNCHANGED <<b_args, b_pc, b_parallel, b_semaphore>>

\* the loop over the files has ended: print_final_report, save_failed_list
BatchReport ==
  /\ b_pc \in {"sequential", "parallel"}
  /\ \A i \in DOMAIN b_task : b_task[i].state = "counted"
  /\ b_pc' = "done"
  /\ UNCHANGED <<b_args, b_parallel, b_semaphore, b_task, b_completed, b_result>>

\* no batch under way
BatchIdle ==
  /\ b_args = [parallel |-> 1, dry_run |-> TRUE, skip_existing |-> TRUE,
               n_files |-> 0]
  /\ b_pc = "idle"
  /\ b_parallel = 1
  /\ b_semaphore = 0
  /\ b_task = <<>>
  /\ b_completed = <<>>
  /\ b_result = EmptyBatchResult

(***************************************************************************)
(* The while loop of chunker.chunk_text, one iteration at a time, over     *)
(* every number of tokens from 1 to MaxTotalTokens (with no token the loop *)
(* is not entered).                                                        *)
(***************************************************************************)
MaxTotalTokens == 2100

WindowInit ==
  /\ w_total_tokens \in 1..MaxTotalTokens
  /\ w_pc = "while"
  /\ w_start_token = 0
  /\ w_end_token = 0
  /\ w_chunk_index = 0

\* one pass of the body of the while loop, with its two break statements, and
\* the test of the loop that follows it
WindowStep ==
  /\ w_pc = "while"
  /\ w_start_token < w_total_tokens
  /\ LET end_token == chunk_end(w_start_token, w_total_tokens)
         start_next == next_start_token(end_token)
     IN /\ w_end_token' = end_token
        /\ w_chunk_index' = next_chunk_index(w_chunk_index)
        /\ w_start_token' = start_next
        /\ w_pc' = IF end_token >= w_total_tokens THEN "done"
                   ELSE IF start_next >= w_total_tokens - OVERLAP_SIZE THEN "done"
                   ELSE IF start_next < w_total_tokens THEN "while"
                   ELSE "done"
  /\ UNCHANGED w_total_tokens

\* no chunk_text loop under way
WindowIdle ==
  /\ w_total_tokens = 0
  /\ w_pc = "idle"
  /\ w_start_token = 0
  /\ w_end_token = 0
  /\ w_chunk_index = 0

UtilIdle == ResponseIdle /\ ChunkIdle /\ StorageIdle /\ BatchIdle /\ WindowIdle

ValidateIdle ==
  /\ vfile = MissingFile
  /\ vresult = "idle"

Init == PipelineInit /\ ValidateIdle /\ EmbedIdle /\ ParseIdle /\ UtilIdle

Next == PipelineNext /\ UNCHANGED <<evars, xvars, uvars>>

Spec == Init /\ [][Next]_vars

\* uploads, local indexing runs and delete requests served side by side
RequestsNext ==
  \/ PipelineNext /\ UNCHANGED <<evars, xvars, uvars>>
  \/ DeleteNext /\ UNCHANGED <<evars, xvars, uvars>>

SpecRequests == Init /\ [][RequestsNext]_vars

\* the same requests served one after the other: no step leaves two of them
\* under way
SerialNext ==
  /\ RequestsNext
  /\ \A p, q \in Procs :
       p # q => (run'[p].pc \in {"idle", "done"} \/ run'[q].pc \in {"idle", "done"})

SpecSerial == Init /\ [][SerialNext]_vars

(***************************************************************************)
(* validate_pdf_file_path on its own, over every path of PathInputs.       *)
(***************************************************************************)
PipelineIdle ==
  /\ s3_enabled = FALSE
  /\ books = {}
  /\ next_id = 1
  /\ vectors = [b \in BookIds |-> 0]
  /\ pdfs = {}
  /\ temp_files = {}
  /\ parsed_local = {}
  /\ parsed_s3 = {}
  /\ started = 0
  /\ run = [p \in Procs |-> IdleRun]

ValidateInit ==
  /\ PipelineIdle
  /\ EmbedIdle
  /\ ParseIdle
  /\ UtilIdle
  /\ vfile \in PathInputs
  /\ vresult = "pending"

ValidateStep ==
  /\ vresult = "pending"
  /\ vresult' = validate_pdf_file_path(vfile)
  /\ UNCHANGED <<vfile, pvars, evars, xvars, uvars>>

ValidateNext == ValidateStep

SpecValidate == ValidateInit /\ [][ValidateNext]_vars

(***************************************************************************)
(* generate_embeddings on its own, over every input and setting.           *)
(***************************************************************************)
InitEmbed ==
  PipelineIdle /\ ValidateIdle /\ ParseIdle /\ UtilIdle /\ EmbedInit

SpecEmbed == InitEmbed /\ [][EmbedNext]_vars

(***************************************************************************)
(* parse_pdf on its own, over every sequence of service responses.         *)
(***************************************************************************)
InitParse ==
  PipelineIdle /\ ValidateIdle /\ EmbedIdle /\ UtilIdle /\ ParseInit

SpecParse == InitParse /\ [][ParseNext]_vars

(***************************************************************************)
(* parse_pdf as its callers see it: the requests of the parse client and,  *)
(* on a COMPLETED poll, _parse_job_response on the body that poll carried.  *)
(* parse_pdf runs in one coroutine that every await resumes, so a call     *)
(* that can take a step does take it.                                      *)
(***************************************************************************)
\* _poll_for_result: data = response.json() of the COMPLETED poll, then
\* return _parse_job_response(data)
ReturnMapped ==
  /\ x_pc = "done" /\ x_result = ParsedDocument
  /\ ResponseIdle
  /\ \E data \in ResponseBodies :
       /\ j_response' = data
       /\ j_result' = parse_job_response(data)
  /\ UNCHANGED <<pvars, vvars, evars, xvars, cvars, dvars, bvars, wvars>>

ParseCallNext ==
  \/ ParseStart
  \/ Submit
  \/ SubmitSleep
  \/ Poll
  \/ PollSleep
  \/ ReturnMapped

SpecParseCall ==
  InitParse /\ [][ParseCallNext]_vars /\ WF_vars(ParseCallNext)

(***************************************************************************)
(* The helper functions on their own.                                      *)
(***************************************************************************)
ServicesIdle == PipelineIdle /\ ValidateIdle /\ EmbedIdle /\ ParseIdle

svars == <<pvars, vvars, evars, xvars>>

\* _parse_job_response over every body of ResponseBodies
InitResponse ==
  ServicesIdle /\ ChunkIdle /\ StorageIdle /\ BatchIdle /\ WindowIdle /\ ResponseInit

ResponseNext == ParseJobResponse /\ UNCHANGED <<svars, cvars, dvars, bvars, wvars>>

SpecResponse == InitResponse /\ [][ResponseNext]_vars

\* the two chunk_text functions over every document of Documents
InitChunk ==
  ServicesIdle /\ ResponseIdle /\ StorageIdle /\ BatchIdle /\ WindowIdle /\ ChunkInit

ChunkNext ==
  \/ ChunkText /\ UNCHANGED <<svars, jvars, dvars, bvars, wvars>>
  \/ SentenceChunkText /\ UNCHANGED <<svars, jvars, dvars, bvars, wvars>>

SpecChunk == InitChunk /\ [][ChunkNext]_vars

\* the storage functions over every store of StorageInit: no pipeline run,
\* no book
NoRuns ==
  /\ books = {}
  /\ next_id = 1
  /\ vectors = [b \in BookIds |-> 0]
  /\ temp_files = {}
  /\ started = 0
  /\ run = [p \in Procs |-> IdleRun]

InitStorage ==
  /\ NoRuns
  /\ ValidateIdle
  /\ EmbedIdle
  /\ ParseIdle
  /\ ResponseIdle
  /\ ChunkIdle
  /\ BatchIdle
  /\ WindowIdle
  /\ StorageInit

\* what a storage function leaves alone
kept == <<books, next_id, vectors, temp_files, started, run, vvars, evars,
          xvars, jvars, cvars, bvars, wvars>>

StorageNext ==
  \/ DeleteStoredFile /\ UNCHANGED kept
  \/ DeleteParsedResult /\ UNCHANGED kept
  \/ SaveParsedResult /\ UNCHANGED kept

SpecStorage == InitStorage /\ [][StorageNext]_vars

\* the batch runner over every command line of BatchArgs
InitBatch ==
  ServicesIdle /\ ResponseIdle /\ ChunkIdle /\ StorageIdle /\ WindowIdle /\ BatchInit

BatchNext ==
  \/ BatchMain /\ UNCHANGED <<svars, jvars, cvars, dvars, wvars>>
  \/ RunBatchUpload /\ UNCHANGED <<svars, jvars, cvars, dvars, wvars>>
  \/ SequentialCall /\ UNCHANGED <<svars, jvars, cvars, dvars, wvars>>
  \/ SequentialReturn /\ UNCHANGED <<svars, jvars, cvars, dvars, wvars>>
  \/ TaskAcquire /\ UNCHANGED <<svars, jvars, cvars, dvars, wvars>>
  \/ TaskReturn /\ UNCHANGED <<svars, jvars, cvars, dvars, wvars>>
  \/ Aggregate /\ UNCHANGED <<svars, jvars, cvars, dvars, wvars>>
  \/ BatchReport /\ UNCHANGED <<svars, jvars, cvars, dvars, wvars>>

SpecBatch == InitBatch /\ [][BatchNext]_vars

\* the loop of chunker.chunk_text over every number of tokens
InitWindow ==
  ServicesIdle /\ ResponseIdle /\ ChunkIdle /\ StorageIdle /\ BatchIdle /\ WindowInit

WindowNext == WindowStep /\ UNCHANGED <<svars, jvars, cvars, dvars, bvars>>

\* the loop is a sequence of statements of one call: it is never suspended
SpecWindow == InitWindow /\ [][WindowNext]_vars /\ WF_vars(WindowNext)

(***************************************************************************)
(* Properties.                                                             *)
(***************************************************************************)
Calls(r, op) == {i \in 1..Len(r.trace) : r.trace[i].op = op}
Called(r, op) == Calls(r, op) # {}
Succeeded(r, op) == \E i \in Calls(r, op) : r.trace[i].ok
Failed(r, op) == \E i \in Calls(r, op) : ~r.trace[i].ok
IsDone(r) == r.pc = "done"
IsLocalEntry(r) == r.entry = "index_local_pdf"

\* the run took an except clause that compensates
Compensating(r) ==
  r.handler \in {"cleanup_reraise", "cleanup_wrap", "http_500_indexing",
                 "http_500_internal"}

\* C1: whenever create_book is invoked, parse_pdf has returned and its raw
\* response has been written to local storage earlier in the same run (stated
\* for runs in which no call before create_book failed).
C1_ParseSavedBeforeCreate ==
  \A p \in Procs :
    LET r == run[p]
    IN \A i \in Calls(r, "create_book") :
         (\A j \in 1..(i - 1) : r.trace[j].ok) =>
           \E j \in 1..(i - 1), k \in 1..(i - 1) :
             /\ j < k
             /\ r.trace[j] = [op |-> "parse_pdf", ok |-> TRUE]
             /\ r.trace[k] = [op |-> "save_parsed_result_to_local", ok |-> TRUE]

\* C2: a run that ends with an error after its file was promoted has attempted
\* to delete the promoted file, the Book record if created, the vectors if an
\* upsert was tried and the side record if saved; if no deletion failed, none
\* of them remains.
C2_FailureAfterPromotionCompensated ==
  \A p \in Procs :
    LET r == run[p]
    IN (IsDone(r) /\ r.result.status = "error" /\ r.stored_path # NoPath) =>
         /\ Called(r, "delete_stored_file")
         /\ r.book_id # 0 => Called(r, "delete_book")
         /\ Called(r, "store_chunks") => Called(r, "delete_chunks_by_book_id")
         /\ Succeeded(r, "save_parsed_result_to_s3") =>
              Called(r, "delete_parsed_result_from_s3")
         /\ (~Failed(r, "delete_stored_file") /\ ~Failed(r, "delete_book")
             /\ ~Failed(r, "delete_chunks_by_book_id")
             /\ ~Failed(r, "delete_parsed_result_from_s3")) =>
              /\ r.stored_path \notin pdfs
              /\ \A b \in books : b.id # r.book_id
              /\ r.book_id # 0 => vectors[r.book_id] = 0
              /\ r.book_id \notin parsed_s3

C4_UpsertFailureKeepsBackup ==
  \A p \in Procs :
    LET r == run[p]
    IN (/\ IsDone(r)
        /\ Succeeded(r, "parse_pdf")
        /\ Failed(r, "store_chunks")
        /\ r.faults = 1) =>
         /\ \A b \in books : b.id # r.book_id
         /\ ByUuid(r.uid) \in parsed_local \/ ByBook(r.book_id) \in parsed_local

PipelineCalls ==
  {"parse_pdf", "upload_temp_to_s3", "copy_to_local_storage",
   "move_temp_to_local_storage", "create_book", "generate_embeddings",
   "store_chunks"}

\* C5: when index_local_pdf with skip_existing looks up a title that exists,
\* that step ends the run with skipped = true, status "skipped" and no book id;
\* the run has made no parse, promotion, create, embedding or upsert call and
\* the step changes no store.
C5_SkipExistingDoesNothing ==
  [][\A p \in Procs :
       (/\ run[p].pc = "duplicate_check"
        /\ run[p].skip_existing
        /\ exists_by_title(run[p].title)
        /\ run'[p] # run[p]
        /\ run'[p].trace[Len(run'[p].trace)] =
             [op |-> "exists_by_title", ok |-> TRUE])
       => /\ run'[p].pc = "done"
          /\ run'[p].result.skipped
          /\ run'[p].result.status = "skipped"
          /\ run'[p].result.book_id = 0
          /\ \A op \in PipelineCalls : ~Called(run'[p], op)
          /\ UNCHANGED <<books, vectors, pdfs, parsed_local, parsed_s3>>]_vars

\* C5 witness: a skip_existing run ended skipped while a Book with its title
\* exists.
C5_Witness ==
  \E p \in Procs :
    LET r == run[p]
    IN /\ IsDone(r) /\ r.skip_existing /\ r.result.skipped
       /\ exists_by_title(r.title)

\* C6: a skip_existing run whose lookup found no record and whose create_book
\* raised the uniqueness violation returns a skipped result and no error.
C6_RaceAbsorbedAsSkipped ==
  \A p \in Procs :
    LET r == run[p]
    IN (/\ IsDone(r) /\ IsLocalEntry(r) /\ r.skip_existing
        /\ Succeeded(r, "exists_by_title")
        /\ r.exc = "DuplicateBookError") =>
         /\ r.result.skipped
         /\ r.result.error = "none"

\* C7: index_local_pdf without skip_existing never looks a title up, and when
\* create_book raises the uniqueness violation the caller receives
\* DuplicateBookError, neither a skipped result nor an IndexingError.
C7_NoSkipPropagatesDuplicate ==
  \A p \in Procs :
    LET r == run[p]
    IN (IsLocalEntry(r) /\ ~r.skip_existing) =>
         /\ ~Called(r, "exists_by_title")
         /\ (IsDone(r) /\ Failed(r, "create_book")
             /\ r.exc = "DuplicateBookError") =>
              /\ r.result.status = "error"
              /\ r.result.error = "DuplicateBookError"
              /\ ~r.result.skipped

\* C7 witness: such a run ended on the uniqueness violation.
C7_Witness ==
  \E p \in Procs :
    LET r == run[p]
    IN /\ IsDone(r) /\ IsLocalEntry(r) /\ ~r.skip_existing
       /\ r.exc = "DuplicateBookError"
       /\ \E b \in books : b.title = r.title

\* C8: a run whose validation rejected the input has made no other call (no
\* parse request, no compensating call), holds no temporary or promoted file,
\* no Book record and no parse backup, and ends with the rejection itself.
C8_RejectionBeforeSideEffects ==
  \A p \in Procs :
    LET r == run[p]
    IN Failed(r, "validate") =>
         /\ r.trace = <<[op |-> "validate", ok |-> FALSE]>>
         /\ ~r.parse_result
         /\ r.temp_path = 0 /\ r.uid \notin temp_files
         /\ r.stored_path = NoPath /\ \A f \in pdfs : f.n # r.uid
         /\ r.book_id = 0
         /\ ByUuid(r.uid) \notin parsed_local
         /\ IsDone(r) =>
              IF IsLocalEntry(r)
              THEN /\ r.result.error \in {"InvalidFileFormatError", "PDFReadError"}
                   /\ r.result.error = validate_pdf_file_path(r.file)
              ELSE r.result.http = 400

\* C8 witness: index_local_pdf ended on a rejected file.
C8_Witness ==
  \E p \in Procs :
    LET r == run[p]
    IN IsDone(r) /\ IsLocalEntry(r) /\ Failed(r, "validate")

\* the name ends in .pdf, whatever the case of the letters
HasPdfExtension(name) ==
  /\ Len(name) >= 4
  /\ name[Len(name) - 3] = "."
  /\ name[Len(name) - 2] \in {"p", "P"}
  /\ name[Len(name) - 1] \in {"d", "D"}
  /\ name[Len(name)] \in {"f", "F"}

\* the file begins with the five bytes %PDF-
HasPdfSignature(content) ==
  /\ Len(content) >= 5
  /\ content[1] = "%" /\ content[2] = "P" /\ content[3] = "D"
  /\ content[4] = "F" /\ content[5] = "-"

\* C9 as claimed: the path is accepted exactly when it exists, is a regular
\* file, is named *.pdf and begins with the signature; otherwise a missing or
\* non-regular path gives PDFReadError and any other failure
\* InvalidFileFormatError.
C9_AcceptsExactlyValidPdf ==
  vresult # "pending" =>
    LET good == /\ vfile.exists /\ vfile.is_file
                /\ HasPdfExtension(vfile.name)
                /\ HasPdfSignature(vfile.content)
    IN /\ (vresult = "ok") <=> good
       /\ ~good => vresult = IF ~vfile.exists \/ ~vfile.is_file
                             THEN "PDFReadError"
                             ELSE "InvalidFileFormatError"

\* C9 (amended): the checks are made in the order exists, regular file,
\* extension, open, signature, and the first failing one decides: missing or
\* non-regular gives PDFReadError, a wrong extension InvalidFileFormatError, a
\* file that cannot be opened PDFReadError, a wrong or short header
\* InvalidFileFormatError; the path is accepted when all five pass.
C9_FirstFailingCheckDecides ==
  vresult # "pending" =>
    vresult = IF ~vfile.exists \/ ~vfile.is_file THEN "PDFReadError"
              ELSE IF ~HasPdfExtension(vfile.name) THEN "InvalidFileFormatError"
              ELSE IF ~vfile.readable THEN "PDFReadError"
              ELSE IF ~HasPdfSignature(vfile.content) THEN "InvalidFileFormatError"
              ELSE "ok"

\* C9 witness: a regular *.pdf file that cannot be opened was rejected with
\* PDFReadError although its bytes begin with the signature.
C9_Witness ==
  /\ vresult = "PDFReadError"
  /\ vfile.exists /\ vfile.is_file /\ ~vfile.readable
  /\ HasPdfExtension(vfile.name)
  /\ HasPdfSignature(vfile.content)

\* C10: a run whose only failing call is the upload of the source file to
\* remote storage has put the file in local permanent storage and gone on to
\* create the Book record with the local path.
C10_UploadFailureFallsBack ==
  \A p \in Procs :
    LET r == run[p]
    IN (IsDone(r) /\ Failed(r, "upload_temp_to_s3") /\ r.faults = 1) =>
         /\ r.stored_path.backend = "local"
         /\ Called(r, "create_book")
         /\ r.result.cause # "ClientError"

TypedErrors ==
  {"InvalidFileFormatError", "PDFReadError", "DuplicateBookError",
   "IndexingError"}

StageRank(op) ==
  CASE op = "validate" -> 1
    [] op = "exists_by_title" -> 2
    [] op = "parse_pdf" -> 3
    [] op \in {"upload_temp_to_s3", "copy_to_local_storage",
               "move_temp_to_local_storage"} -> 4
    [] op = "create_book" -> 5
    [] op = "chunk_text" -> 6
    [] op = "generate_embeddings" -> 7
    [] op = "store_chunks" -> 8
    [] op = "update_book_embedding_model" -> 9
    [] OTHER -> 0

\* every stage but the duplicate check, which runs only with skip_existing
MandatoryStages == {1, 3, 4, 5, 6, 7, 8, 9}

IndexBookCalls ==
  {"generate_embeddings", "store_chunks", "delete_chunks_by_book_id",
   "update_book_embedding_model"}

\* C13: once index_book has been entered with zero chunks it has returned
\* chunks_stored = 0 and total_tokens = 0, and the invocation has called
\* neither the embedding client nor the vector repository (upsert or delete)
\* nor the relational update; no vector of the book exists and the Book is not
\* stamped.
C13_ZeroChunksShortCircuit ==
  \A p \in Procs :
    LET r == run[p]
    IN (Succeeded(r, "chunk_text") /\ r.n_chunks = 0 /\ r.pc # "embed") =>
         /\ r.indexing = [returned |-> TRUE, chunks_stored |-> 0,
                          total_tokens |-> 0]
         /\ IsDone(r) /\ r.result.status = "indexed"
         /\ r.result.chunks_count = 0
         /\ \A op \in IndexBookCalls : ~Called(r, op)
         /\ vectors[r.book_id] = 0
         /\ \A b \in books : b.id = r.book_id => ~b.embedding_model

\* C13 witness: an invocation ended after chunking produced no chunk.
C13_Witness ==
  \E p \in Procs :
    LET r == run[p]
    IN /\ IsDone(r) /\ Succeeded(r, "chunk_text") /\ r.n_chunks = 0
       /\ r.indexing.returned

BatchCalls(i) ==
  {k \in 1..Len(e_log) : e_log[k].ev = "call" /\ e_log[k].i = i}

\* C15: when generate_embeddings has ended without any provider failure, on n
\* chunks with batch size b, exactly ceil(n/b) provider calls were made (none
\* for n = 0), the k-th on the k-th run of b chunks in input order, and the
\* result holds n embedded chunks with embedded_chunks[i].chunk = chunks[i].
C15_BatchesInOrder ==
  (/\ e_pc = "done"
   /\ e_settings.openai_api_key
   /\ \A k \in 1..Len(e_log) : e_log[k].outcome = "ok") =>
    LET n == Len(e_chunks)
        b == e_settings.embedding_batch_size
    IN /\ Len(e_log) = (n + b - 1) \div b
       /\ \A k \in 1..Len(e_log) :
            /\ e_log[k].ev = "call"
            /\ Len(e_log[k].texts) = (IF k * b <= n THEN b ELSE n - (k - 1) * b)
            /\ \A j \in 1..Len(e_log[k].texts) :
                 e_log[k].texts[j] = e_chunks[(k - 1) * b + j]
       /\ e_result.status = "ok"
       /\ Len(e_result.embedded_chunks) = n
       /\ \A i \in 1..n :
            /\ e_result.embedded_chunks[i].chunk = e_chunks[i]
            /\ e_result.embedded_chunks[i].vector = e_chunks[i]
       /\ e_result.total_tokens = n

\* C15 witness: three or more chunks were embedded in two calls, the last
\* batch being shorter than the batch size.
C15_Witness ==
  /\ e_pc = "done" /\ e_result.status = "ok"
  /\ Len(e_chunks) >= 3 /\ Len(e_log) = 2
  /\ e_log[1].outcome = "ok" /\ e_log[2].outcome = "ok"
  /\ Len(e_log[2].texts) < e_settings.embedding_batch_size

\* C16: a rate-limited call that is not the last allowed one is followed by a
\* sleep of base_delay * 2^attempt and then by another call for the same
\* batch; no batch gets more than embedding_max_retries calls; a successful
\* call is the last call of its batch and, for the last batch, gives a
\* successful result; a rate-limited last allowed call ends the run with an
\* EmbeddingError whose message holds the retry count, and nothing follows it.
C16_RateLimitBackoff ==
  LET max_retries == e_settings.embedding_max_retries
      base_delay == e_settings.embedding_retry_base_delay
      last == Len(e_log)
  IN \A k \in 1..last :
       LET e == e_log[k]
       IN /\ e.ev = "call" => e.attempt < max_retries
          /\ e.ev = "call" => Cardinality(BatchCalls(e.i)) <= max_retries
          /\ (e.ev = "call" /\ e.outcome = "RateLimitError"
              /\ e.attempt < max_retries - 1) =>
               /\ k = last => e_pc = "sleep"
               /\ k < last =>
                    /\ e_log[k + 1].ev = "sleep"
                    /\ e_log[k + 1].delay = base_delay * (2 ^ e.attempt)
                    /\ k + 1 = last => e_pc = "call"
               /\ k + 1 < last =>
                    /\ e_log[k + 2].ev = "call"
                    /\ e_log[k + 2].i = e.i
                    /\ e_log[k + 2].texts = e.texts
                    /\ e_log[k + 2].attempt = e.attempt + 1
          /\ (e.ev = "call" /\ e.outcome = "RateLimitError"
              /\ e.attempt = max_retries - 1) =>
               /\ k = last /\ e_pc = "done"
               /\ e_result.status = "EmbeddingError"
               /\ e_result.message = "Rate limit exceeded after"
               /\ e_result.retries = max_retries
               /\ Cardinality(BatchCalls(e.i)) = max_retries
          /\ (e.ev = "call" /\ e.outcome = "ok") =>
               /\ \A m \in BatchCalls(e.i) : m <= k
               /\ (k = last /\ e_pc = "done") => e_result.status = "ok"
          /\ e.ev = "sleep" =>
               /\ k > 1
               /\ e_log[k - 1].ev = "call"
               /\ e_log[k - 1].outcome = "RateLimitError"

\* C16 witness: three rate-limited calls with two sleeps between them ended
\* the run with EmbeddingError.
C16_Witness ==
  /\ e_pc = "done" /\ e_result.status = "EmbeddingError"
  /\ e_result.retries = 3
  /\ Len(e_log) = 5
  /\ e_log[4].ev = "sleep" /\ e_log[4].delay = 2 * e_log[2].delay

\* C17: a provider call that failed with anything but a rate limit is the last
\* event of the run: no retry, no sleep, no call for a later batch; the run
\* has ended with EmbeddingError and returned no embedded chunk; if it was the
\* first call for its batch it is the only one.
C17_OtherErrorFailsAtOnce ==
  \A k \in 1..Len(e_log) :
    LET e == e_log[k]
    IN (e.ev = "call" /\ e.outcome \in {"APIError", "Exception"}) =>
         /\ k = Len(e_log)
         /\ e_pc = "done"
         /\ e_result.status = "EmbeddingError"
         /\ e_result.message = (IF e.outcome = "APIError" THEN "OpenAI API error"
                                ELSE "Unexpected error")
         /\ e_result.embedded_chunks = <<>>
         /\ e.attempt = 0 => BatchCalls(e.i) = {k}
         /\ \A m \in 1..Len(e_log) : e_log[m].i <= e.i

\* C17 witness: the second batch failed with an API error after the first
\* had been embedded.
C17_Witness ==
  /\ e_pc = "done"
  /\ Len(e_log) = 2
  /\ e_log[1].outcome = "ok"
  /\ e_log[2].outcome = "APIError"
  /\ e_embedded # <<>>
  /\ e_result.status = "EmbeddingError"

Submits == {k \in 1..Len(x_log) : x_log[k].ev = "submit"}
Polls == {k \in 1..Len(x_log) : x_log[k].ev = "poll"}

\* a submit request that got no 200/201 response
SubmitFailed(e) == e.outcome # "response" \/ e.status_code \notin {200, 201}

\* C18: one parse sends at most two submit requests; a first submit answered
\* with a 5xx status or ended by a timeout is followed by a sleep of the fixed
\* retry delay and a second submit; a failed second submit ends the parse at
\* once with StormParseAPIError carrying the status of the response if there
\* was one; a first submit answered with an error status below 500 is not
\* retried and ends the parse with that status.
C18_SubmitRetriedOnce ==
  LET last == Len(x_log)
  IN /\ Cardinality(Submits) <= 2
     /\ \A k \in Submits :
          LET e == x_log[k]
              first == \A j \in Submits : k <= j
          IN /\ (first /\ \/ e.outcome = "TimeoutException"
                          \/ e.outcome = "response" /\ e.status_code >= 500) =>
                  /\ k = last => (x_pc = "submit_sleep" /\ x_result = ParsePending)
                  /\ k < last =>
                       /\ x_log[k + 1].ev = "sleep"
                       /\ x_log[k + 1].delay = 1
                       /\ k + 1 = last => x_pc = "submit"
                  /\ k + 1 < last => x_log[k + 2].ev = "submit"
             /\ (~first /\ SubmitFailed(e) /\ e.outcome # "OSError") =>
                  /\ k = last /\ x_pc = "done"
                  /\ x_result.status = "StormParseAPIError"
                  /\ x_result.status_code =
                       (IF e.outcome = "response" THEN e.status_code ELSE 0)
             /\ (e.outcome = "response" /\ e.status_code \notin {200, 201}
                 /\ e.status_code < 500) =>
                  /\ k = last /\ x_pc = "done"
                  /\ x_result.status = "StormParseAPIError"
                  /\ x_result.status_code = e.status_code
                  /\ first => Submits = {k}

\* C18 witness: a 5xx answer, the retry delay, a second 5xx answer, and the
\* parse ended with the second status.
C18_Witness ==
  /\ x_pc = "done" /\ Len(x_log) = 3
  /\ x_log[1].status_code = 503 /\ x_log[2].ev = "sleep"
  /\ x_log[3].status_code = 500
  /\ x_result.status = "StormParseAPIError" /\ x_result.status_code = 500

\* what follows a poll at position k that calls for another poll: the sleep of
\* the poll interval and then, while fewer than storm_parse_max_poll_attempts
\* polls were made, the next poll (otherwise the parse ends with the
\* did-not-complete error)
PolledAgain(k) ==
  LET last == Len(x_log)
  IN /\ k = last => (x_pc = "poll_sleep" /\ x_result = ParsePending)
     /\ k < last =>
          /\ x_log[k + 1].ev = "sleep"
          /\ x_log[k + 1].delay = 2
     /\ k + 1 = last =>
          IF Cardinality(Polls) < x_max_polls
          THEN x_pc = "poll" /\ x_result = ParsePending
          ELSE /\ x_pc = "done"
               /\ x_result.status = "StormParseAPIError"
               /\ x_result.message = "did not complete within"
     /\ k + 1 < last => x_log[k + 2].ev = "poll"

\* C19: a poll answered with state COMPLETED ends the parse with the parsed
\* document; one answered with FAILED or ERROR ends it with a
\* StormParseAPIError naming that state; one answered with any other state is
\* followed by a sleep of the poll interval and another poll (within the
\* attempt limit); nothing is requested after a terminal state.
C19_PollStates ==
  \A k \in Polls :
    LET e == x_log[k]
    IN (e.outcome = "response" /\ e.status_code = 200) =>
         /\ e.state = "COMPLETED" =>
              /\ k = Len(x_log) /\ x_pc = "done"
              /\ x_result = ParsedDocument
         /\ e.state \in {"FAILED", "ERROR"} =>
              /\ k = Len(x_log) /\ x_pc = "done"
              /\ x_result.status = "StormParseAPIError"
              /\ x_result.message = "Storm Parse job failed with state"
              /\ x_result.state = e.state
         /\ e.state \notin {"COMPLETED", "FAILED", "ERROR"} => PolledAgain(k)

\* C19 witness: a non-terminal state, then FAILED.
C19_Witness ==
  /\ x_pc = "done"
  /\ \E k \in Polls :
       /\ x_log[k].state = "PROCESSING"
       /\ k + 2 = Len(x_log)
       /\ x_log[k + 2].state = "FAILED"
  /\ x_result.state = "FAILED"

\* C20: a poll request that timed out does not end the parse: it is followed
\* by a sleep of the poll interval and another poll (within the attempt
\* limit), and a parse whose last poll was answered COMPLETED has returned the
\* document however many earlier polls timed out.
C20_PollTimeoutRetried ==
  \A k \in Polls :
    x_log[k].outcome = "TimeoutException" =>
      /\ PolledAgain(k)
      /\ \A j \in Polls :
           (j > k /\ x_log[j].outcome = "response" /\ x_log[j].status_code = 200
            /\ x_log[j].state = "COMPLETED") =>
             /\ x_pc = "done"
             /\ x_result = ParsedDocument

\* C20 witness: a timed out poll, then COMPLETED.
C20_Witness ==
  /\ x_pc = "done"
  /\ x_result = ParsedDocument
  /\ \E k \in Polls :
       /\ x_log[k].outcome = "TimeoutException"
       /\ k + 2 = Len(x_log)
       /\ x_log[k + 2].state = "COMPLETED"

\* the local file could not be read: parse_pdf found no regular file at the
\* path, or open() / the streaming read of a submit raised OSError
Unreadable ==
  \/ x_path # "file"
  \/ \E k \in Submits : x_log[k].outcome = "OSError"

\* C21: a local file that cannot be read (missing, not a regular file, or an
\* OS error while opening or streaming it) makes parse_pdf raise PDFReadError
\* and never StormParseAPIError; a parse that failed for any other reason (an
\* API failure) never ends with PDFReadError; a read failure ends the parse at
\* once, without a further request.
C21_ReadErrorDistinct ==
  /\ (x_pc = "done" /\ Unreadable) => x_result = PDFReadError
  /\ (x_pc = "done" /\ ~Unreadable) => x_result.status # "PDFReadError"
  /\ x_path # "file" => x_log = <<>>
  /\ \A k \in Submits :
       x_log[k].outcome = "OSError" => (k = Len(x_log) /\ x_pc = "done")

\* C21 witness: the file passed the path checks, the first submit got a 503
\* and was retried, and the retry could not read the file.
C21_Witness ==
  /\ x_pc = "done"
  /\ x_path = "file"
  /\ x_result = PDFReadError
  /\ Len(x_log) = 3
  /\ x_log[1].status_code = 503
  /\ x_log[3].outcome = "OSError"

\* the page_number the mapping owes to element i (1-based here, so that the
\* position index + 1 of the source is i)
ExpectedPageNumber(i) ==
  IF j_response.pages[i].pageNumber_kind = "absent" THEN i
  ELSE j_response.pages[i].pageNumber

\* a body whose shape is not the documented one
MalformedResponse ==
  \/ j_response.pages_kind = "null"
  \/ \E i \in 1..Len(j_response.pages) :
       \/ j_response.pages[i].shape # "object"
       \/ j_response.pages[i].pageNumber_kind = "null"

\* the document holds exactly the pages of the body, in ascending order
MappedAndSorted ==
  LET n == Len(j_response.pages)
      out == j_result.pages
  IN /\ j_result.status = "ParsedDocument"
     /\ Len(out) = n
     /\ j_result.total_pages = n
     /\ \A i, k \in 1..n : i < k => out[i].page_number <= out[k].page_number
     /\ \E f \in Permutations(1..n) :
          \A i \in 1..n :
            out[f[i]] = ParsedPage(ExpectedPageNumber(i),
                                   j_response.pages[i].content)

\* C22: the ParsedDocument built from a COMPLETED response has its pages in
\* ascending page_number order whatever order the API returned, uses position
\* index+1 as page_number for a page record without pageNumber, has
\* total_pages equal to the number of pages, and a malformed response shape
\* yields StormParseAPIError rather than an untyped exception.
C22_ResponseMapping ==
  j_result.status \notin {"pending", "idle"} =>
    IF MalformedResponse
    THEN j_result.status = "StormParseAPIError"
    ELSE MappedAndSorted

\* len(all_tokens): the tokens of the pages of the document
RECURSIVE DocumentTokens(_)
DocumentTokens(pages) ==
  IF pages = <<>> THEN 0
  ELSE Head(pages).content.n_tokens + DocumentTokens(Tail(pages))

RECURSIVE SumTokenCounts(_)
SumTokenCounts(chunks) ==
  IF chunks = <<>> THEN 0
  ELSE Head(chunks).token_count + SumTokenCounts(Tail(chunks))

\* C23: for every document chunked by the token-based chunk_text, every chunk
\* has 1 <= token_count <= CHUNK_SIZE, and the sum of token_count over all
\* chunks is at least the total number of tokens of the document.
C23_TokenCountsBounded ==
  c_result.status = "ChunkedDocument" =>
    /\ \A i \in 1..Len(c_result.chunks) :
         /\ 1 <= c_result.chunks[i].token_count
         /\ c_result.chunks[i].token_count <= CHUNK_SIZE
    /\ SumTokenCounts(c_result.chunks) >= DocumentTokens(c_document.pages)

\* C23 witness: a document of more than three windows of tokens: full chunks,
\* a shorter last chunk, and the overlaps counted twice.
C23_Witness ==
  /\ c_result.status = "ChunkedDocument"
  /\ DocumentTokens(c_document.pages) > 3 * CHUNK_SIZE
  /\ Len(c_result.chunks) >= 4
  /\ c_result.chunks[1].token_count = CHUNK_SIZE
  /\ c_result.chunks[Len(c_result.chunks)].token_count < CHUNK_SIZE
  /\ SumTokenCounts(c_result.chunks) > DocumentTokens(c_document.pages)

\* the chunks carry the indices 0, 1, ..., N-1 in emission order and
\* total_chunks is N
IndicesSequential(chunked) ==
  /\ \A i \in 1..Len(chunked.chunks) : chunked.chunks[i].index = i - 1
  /\ chunked.total_chunks = Len(chunked.chunks)

\* C24: for both chunkers, the chunks of a ChunkedDocument carry the indices
\* 0, 1, ..., N-1 in emission order with no gap or repeat (across pages too),
\* and total_chunks equals N.
C24_IndicesSequential ==
  /\ c_result.status = "ChunkedDocument" => IndicesSequential(c_result)
  /\ s_result.status = "ChunkedDocument" => IndicesSequential(s_result)

\* C24 witness: both chunkers gave chunks from more than one page of the
\* same document, the sentence-aware one after dropping a blank piece.
C24_Witness ==
  /\ c_result.status = "ChunkedDocument"
  /\ s_result.status = "ChunkedDocument"
  /\ Len(c_result.chunks) >= 3
  /\ c_result.chunks[1].page_number # c_result.chunks[3].page_number
  /\ Len(s_result.chunks) >= 3
  /\ s_result.chunks[1].page_number # s_result.chunks[3].page_number
  /\ \E i \in 2..Len(s_result.chunks) :
       /\ s_result.chunks[i].content.piece = 2
       /\ s_result.chunks[i - 1].content.source
            # s_result.chunks[i].content.source

\* the positions in all_tokens (0-based) of the tokens of a chunk, in order
ChunkTokens(chunk) ==
  [k \in 1..(chunk.content.to - chunk.content.from) |->
     chunk.content.from + k - 1]

\* seq[n:] of Python, for n >= 0
DropFirst(seq, n) == SubSeq(seq, Min(n, Len(seq)) + 1, Len(seq))

\* the chunks joined after dropping the first OVERLAP_SIZE tokens of every
\* chunk but the first
RECURSIVE Rejoined(_, _)
Rejoined(chunks, i) ==
  IF i > Len(chunks) THEN <<>>
  ELSE (IF i = 1 THEN ChunkTokens(chunks[i])
        ELSE DropFirst(ChunkTokens(chunks[i]), OVERLAP_SIZE))
       \o Rejoined(chunks, i + 1)

\* C25: the token-based chunker tiles the flat token array of a document that
\* has tokens: chunk 0 starts at token 0, each later chunk starts at the
\* previous chunk's end minus OVERLAP_SIZE, the last chunk ends at the last
\* token, so every token lies in at least one chunk and dropping the first
\* OVERLAP_SIZE tokens of every chunk but the first reconstructs the token
\* array exactly; a document with at most CHUNK_SIZE tokens gives exactly one
\* chunk holding all of it.
C25_WindowsTile ==
  LET chunks == c_result.chunks
      n == Len(chunks)
      total_tokens == DocumentTokens(c_document.pages)
  IN (c_result.status = "ChunkedDocument" /\ total_tokens >= 1) =>
       /\ n >= 1
       /\ chunks[1].content.from = 0
       /\ \A i \in 2..n :
            chunks[i].content.from = chunks[i - 1].content.to - OVERLAP_SIZE
       /\ chunks[n].content.to = total_tokens
       /\ \A k \in 0..(total_tokens - 1) :
            \E i \in 1..n : chunks[i].content.from <= k /\ k < chunks[i].content.to
       /\ Rejoined(chunks, 1) = [k \in 1..total_tokens |-> k - 1]
       /\ total_tokens <= CHUNK_SIZE =>
            /\ n = 1
            /\ chunks[1].content = [from |-> 0, to |-> total_tokens]

\* C25 witness: three windows or more, and the last one shorter than a full
\* window.
C25_Witness ==
  /\ c_result.status = "ChunkedDocument"
  /\ Len(c_result.chunks) >= 3
  /\ c_result.chunks[2].content.from = CHUNK_SIZE - OVERLAP_SIZE
  /\ c_result.chunks[Len(c_result.chunks)].token_count < CHUNK_SIZE

\* the pages whose content is empty or whitespace only
BlankPages ==
  {i \in 1..Len(c_document.pages) :
     c_document.pages[i].content.kind \in {"empty", "whitespace"}}

\* the tokens of the pages that have text
RECURSIVE TextTokens(_)
TextTokens(pages) ==
  IF pages = <<>> THEN 0
  ELSE (IF Head(pages).content.kind = "text"
        THEN Head(pages).content.n_tokens ELSE 0)
       + TextTokens(Tail(pages))

\* C26: pages whose content is empty or whitespace-only contribute no tokens
\* and no chunk to the token-based chunker; a document with no pages, or with
\* only such pages, yields zero chunks; a 0-page document yields
\* source_pages = 0.
C26_BlankPagesSkipped ==
  LET chunks == c_result.chunks
  IN c_result.status = "ChunkedDocument" =>
       /\ \A i \in 1..Len(chunks) :
            /\ chunks[i].content.to <= TextTokens(c_document.pages)
            /\ \A p \in BlankPages :
                 chunks[i].page_number # c_document.pages[p].page_number
       /\ BlankPages = 1..Len(c_document.pages) =>
            (chunks = <<>> /\ c_result.total_chunks = 0)
       /\ c_document.pages = <<>> => c_result.source_pages = 0

\* the position in the document of the page that contributed token k
\* (0-based) of the flat token array
OwnerOfToken(k) ==
  CHOOSE p \in 1..Len(c_document.pages) :
    LET before == DocumentTokens(SubSeq(c_document.pages, 1, p - 1))
    IN before <= k /\ k < before + c_document.pages[p].content.n_tokens

\* C27: in the token-based chunker, every chunk's page_number is the page
\* number of the page that contributed the chunk's first token, also when the
\* chunk spans a page boundary or starts inside the overlap region.
C27_PageOfFirstToken ==
  c_result.status = "ChunkedDocument" =>
    \A i \in 1..Len(c_result.chunks) :
      c_result.chunks[i].page_number =
        c_document.pages[OwnerOfToken(c_result.chunks[i].content.from)].page_number

\* C27 witness: a later chunk that starts inside the overlap on one page and
\* whose tokens behind the overlap are all of later pages.
C27_Witness ==
  /\ c_result.status = "ChunkedDocument"
  /\ \E i \in 2..Len(c_result.chunks) :
       LET chunk == c_result.chunks[i]
           first == OwnerOfToken(chunk.content.from)
           fresh == OwnerOfToken(chunk.content.from + OVERLAP_SIZE)
           last == OwnerOfToken(chunk.content.to - 1)
       IN /\ first < fresh
          /\ fresh <= last
          /\ chunk.page_number = c_document.pages[first].page_number
          /\ chunk.page_number # c_document.pages[last].page_number

\* C28: the sentence-aware chunker never emits a chunk whose text comes from
\* more than one page: each chunk's content is a piece of the content of the
\* single page named by its page_number, and chunks are emitted page by page
\* in page order (the pieces of a page in the order split_text gave them).
C28_ChunksWithinOnePage ==
  LET chunks == s_result.chunks
  IN s_result.status = "ChunkedDocument" =>
       /\ \A i \in 1..Len(chunks) :
            /\ chunks[i].content.source \in 1..Len(c_document.pages)
            /\ c_document.pages[chunks[i].content.source].page_number
                 = chunks[i].page_number
            /\ \A p \in 1..Len(c_document.pages) :
                 c_document.pages[p].page_number = chunks[i].page_number
                   => p = chunks[i].content.source
       /\ \A i, k \in 1..Len(chunks) :
            i < k =>
              \/ chunks[i].content.source < chunks[k].content.source
              \/ /\ chunks[i].content.source = chunks[k].content.source
                 /\ chunks[i].content.piece < chunks[k].content.piece

\* C28 witness: two chunks of the first page, none of the whitespace-only
\* second page, one of the third.
C28_Witness ==
  /\ s_result.status = "ChunkedDocument"
  /\ Len(c_document.pages) = 3
  /\ c_document.pages[2].content.kind = "whitespace"
  /\ Len(s_result.chunks) = 3
  /\ s_result.chunks[1].content.source = 1
  /\ s_result.chunks[2].content.source = 1
  /\ s_result.chunks[3].content.source = 3
  /\ s_result.chunks[3].page_number = c_document.pages[3].page_number

\* the calls of the delete functions
Deletes ==
  {k \in 1..Len(d_log) :
     d_log[k].op \in {"delete_stored_file", "delete_parsed_result_from_s3"}}

\* the object named by the locator of a delete call was not in the store
AbsentBefore(call) ==
  IF call.op = "delete_stored_file" THEN call.arg \notin call.before[1]
  ELSE call.arg.n \notin call.before[3]

\* C29: storage delete is idempotent on both backends: when the disk or the
\* bucket raises no error, deleting a locator whose object is absent reports
\* success (true), so delete(x) followed by delete(x) returns success both
\* times and leaves the same state as one delete.
C29_DeleteIdempotent ==
  \A k \in Deletes :
    LET first == d_log[k]
    IN first.fault = "none" =>
         /\ AbsentBefore(first) => first.result = "True"
         /\ \A j \in Deletes :
              (/\ j = k + 1
               /\ d_log[j].op = first.op
               /\ d_log[j].arg = first.arg
               /\ d_log[j].fault = "none") =>
                /\ first.result = "True"
                /\ d_log[j].result = "True"
                /\ d_log[j].after = first.after

\* the calls of save_parsed_result
Saves == {k \in 1..Len(d_log) : d_log[k].op = "save_parsed_result"}

\* C30: save_parsed_result always attempts the local save first, then the
\* remote save only when remote storage is enabled; it returns the remote
\* locator when the remote save succeeded, otherwise the local path when the
\* local save succeeded, otherwise None, and it never raises to the pipeline
\* whichever of the two saves fails.
C30_SaveLocalThenRemote ==
  \A k \in Saves :
    LET call == d_log[k]
        remote_saved == s3_enabled /\ call.fault = "none"
        local_saved == call.local = "saved"
    IN /\ call.calls =
            (IF s3_enabled
             THEN <<"save_parsed_result_to_local", "save_parsed_result_to_s3">>
             ELSE <<"save_parsed_result_to_local">>)
       /\ call.result \in {"s3", "local", "none"}
       /\ call.result = (IF remote_saved THEN "s3"
                         ELSE IF local_saved THEN "local"
                         ELSE "none")

(***************************************************************************)
(* C31.  The batch runner never has more index_local_pdf calls in flight   *)
(* than the parallelism N it runs with, and N is never above               *)
(* MAX_CONCURRENCY, whatever --parallel asked for.                         *)
(***************************************************************************)
C31_BoundedConcurrency ==
  b_pc \in {"run_batch_upload", "sequential", "parallel", "report", "done"} =>
    /\ b_parallel <= MAX_CONCURRENCY
    /\ b_parallel = Min(b_args.parallel, MAX_CONCURRENCY)
    /\ Cardinality(InFlight) <= b_parallel
    /\ b_pc = "parallel" =>
         b_semaphore + Cardinality(InFlight) = b_parallel

\* a task waits at the semaphore while as many calls as allowed are in flight
C31_Witness ==
  /\ b_pc = "parallel"
  /\ b_args.parallel = 2
  /\ Cardinality(InFlight) = 2
  /\ \E i \in DOMAIN b_task : b_task[i].state = "created"

\* the positions at which file i stands in a list of the BatchResult
Entries(list, i) == {k \in 1..Len(list) : list[k] = i}

\* the index_local_pdf call of file i did not give a result
FileFailed(i) == b_task[i].task.result = "none"

(***************************************************************************)
(* C32.  When a batch that is no dry run has finished, sequential or       *)
(* parallel, index_local_pdf has been called once for every scanned file,  *)
(* every file stands in exactly one of the success, failed and skipped     *)
(* lists, the counters are the lengths of the lists and add up to total;   *)
(* a file whose call raised is counted as failed and the files after it    *)
(* are processed all the same.                                             *)
(***************************************************************************)
C32_EveryFileCountedOnce ==
  /\ b_pc \in {"sequential", "parallel", "done"} =>
       /\ b_result.success = Len(b_result.success_list)
       /\ b_result.failed = Len(b_result.failed_list)
       /\ b_result.skipped = Len(b_result.skipped_list)
       /\ b_result.total = b_args.n_files
       /\ \A i \in DOMAIN b_task : b_task[i].calls <= 1
  /\ (b_pc = "done" /\ ~b_args.dry_run) =>
       /\ b_result.total = b_result.success + b_result.failed + b_result.skipped
       /\ \A i \in 1..b_args.n_files :
            /\ b_task[i].calls = 1
            /\ Cardinality(Entries(b_result.success_list, i))
                 + Cardinality(Entries(b_result.failed_list, i))
                 + Cardinality(Entries(b_result.skipped_list, i)) = 1
            /\ FileFailed(i) <=> Entries(b_result.failed_list, i) # {}
            /\ b_task[i].task.result = "skipped"
                 <=> Entries(b_result.skipped_list, i) # {}

\* a sequential batch whose first file failed and whose later files were
\* indexed and skipped
C32_Witness ==
  /\ b_pc = "done"
  /\ b_parallel = 1
  /\ b_args.n_files = 3
  /\ b_result.failed_list = <<1>>
  /\ b_result.success_list = <<2>>
  /\ b_result.skipped_list = <<3>>

IsDeleteRequest(r) == r.entry = "delete_book"

\* the calls of the delete route, in the order of its statements
DeleteOrder ==
  <<"get_book", "delete_chunks_by_book_id", "delete_book", "delete_stored_file",
    "delete_parsed_result_from_s3">>

\* no other task (a delete request, or the compensation of the run that
\* created it) has asked the repository to delete the book of request p
OnlyDeleteOf(p) ==
  \A q \in Procs \ {p} :
    run[q].book_id = run[p].book_id => ~Called(run[q], "delete_book")

CommitRank(op) ==
  CASE op = "delete_stored_file" -> 1
    [] op = "delete_book" -> 2
    [] op = "delete_parsed_result_from_s3" -> 3
    [] op = "delete_chunks_by_book_id" -> 4
    [] OTHER -> 0

\* the place of a compensating call in the except clauses as they are written
CompensationRank(op) ==
  CASE op = "delete_chunks_by_book_id" -> 1
    [] op = "delete_book" -> 2
    [] op = "delete_parsed_result_from_s3" -> 3
    [] op = "delete_stored_file" -> 4
    [] OTHER -> 0

\* the calls that commit a side effect a compensating call undoes
CommitCalls ==
  {"upload_temp_to_s3", "copy_to_local_storage", "move_temp_to_local_storage",
   "create_book", "save_parsed_result_to_s3", "store_chunks"}

\* C34 as stated: the compensating calls of an invocation are attempted in the
\* strict reverse of the commit order (vectors, side record, Book record,
\* promoted file).
C34_StrictReverseOrder ==
  \A p \in Procs :
    LET r == run[p]
    IN \A i, j \in 1..Len(r.trace) :
         (i < j /\ CommitRank(r.trace[i].op) > 0
                /\ CommitRank(r.trace[j].op) > 0) =>
           CommitRank(r.trace[i].op) > CommitRank(r.trace[j].op)

\* C34: the compensating calls of an invocation are attempted, each at most
\* once and after the last committing call, in the order vectors (index_book's
\* own rollback), Book record, side record, promoted file: the reverse of the
\* commit order except that the Book record goes before the side record.
C34_CompensationOrder ==
  \A p \in Procs :
    LET r == run[p]
    IN \A i, j \in 1..Len(r.trace) :
         (i < j /\ CompensationRank(r.trace[i].op) > 0) =>
           /\ r.trace[j].op \notin CommitCalls
           /\ CompensationRank(r.trace[j].op) > 0 =>
                CompensationRank(r.trace[i].op)
                  < CompensationRank(r.trace[j].op)

\* C34 witness: an invocation that failed in the vector upsert has attempted
\* all four compensating calls.
C34_Witness ==
  \E p \in Procs :
    LET r == run[p]
    IN /\ IsDone(r) /\ Failed(r, "store_chunks")
       /\ \A q \in 1..4 :
            \E i \in 1..Len(r.trace) : CompensationRank(r.trace[i].op) = q

\* the parse_pdf call has returned or raised
ParseCallEnded ==
  x_pc = "done" /\ (x_result = ParsedDocument => ~ResponseIdle)

\* what the caller of parse_pdf received
ParseCallOutcome ==
  IF x_result = ParsedDocument THEN j_result.status ELSE x_result.status

\* the status requests of one job never exceed
\* storm_parse_max_poll_attempts, timed out ones included, and after that many
\* without a terminal state the call has ended with the did-not-complete error
PollBound ==
  /\ Cardinality(Polls) <= x_max_polls
  /\ Cardinality({k \in Polls : x_log[k].outcome = "TimeoutException"})
       <= x_poll_count
  /\ (x_poll_count = x_max_polls /\ x_pc # "poll_sleep") =>
       /\ x_pc = "done"
       /\ x_result = StormParseAPIError("did not complete within", 0, "")

\* every parse_pdf call ends
ParseCallTerminates == <>ParseCallEnded

\* C35: one job gets at most storm_parse_max_poll_attempts status requests,
\* timed out ones included; when that many passed without a terminal state
\* parse_pdf has ended with the did-not-complete StormParseAPIError; and a
\* call that has ended gave a document or a typed error (PDFReadError,
\* StormParseAPIError).
C35_PollBoundTypedEnd ==
  /\ PollBound
  /\ ParseCallEnded =>
       ParseCallOutcome \in {"ParsedDocument", "PDFReadError",
                             "StormParseAPIError"}

\* C36: the while loop of the token chunker ends for every number of tokens;
\* an iteration that is followed by another one leaves the window start
\* strictly greater; the loop is left on exactly the iteration whose window
\* ends at the last token; every window starts at a token of the array (none
\* at a negative index); and fewer than OVERLAP_SIZE tokens give one chunk.
C36_WindowLoopTerminates ==
  /\ [][(w_pc = "while" /\ w_pc' = "while") =>
          w_start_token' > w_start_token]_vars
  /\ [][w_pc = "while" =>
          /\ w_end_token' > w_start_token
          /\ (w_pc' = "done") <=> (w_end_token' = w_total_tokens)]_vars
  /\ [](w_pc = "while" =>
          (0 <= w_start_token /\ w_start_token < w_total_tokens))
  /\ []((w_pc = "done" /\ w_total_tokens < OVERLAP_SIZE) => w_chunk_index = 1)
  /\ <>(w_pc = "done")

\* C36 witness: the loop has ended after three windows, the last of which
\* reached the end of the token array.
C36_Witness ==
  /\ w_pc = "done"
  /\ w_chunk_index = 3
  /\ w_end_token = w_total_tokens

\* C37: a run that has ended on the DuplicateBookError of create_book (a
\* conflict for the caller, a skipped file in a batch with skip_existing) has
\* left no promoted file of its own in permanent storage.
C37_DuplicateLeavesNoFile ==
  \A p \in Procs :
    LET r == run[p]
    IN (/\ IsDone(r)
        /\ Failed(r, "create_book")
        /\ r.exc = "DuplicateBookError") =>
         r.stored_path \notin pdfs

\* no invocation and no delete request is under way
Quiescent == \A p \in Procs : run[p].pc \in {"idle", "done"}

\* every deletion in a store that was called has succeeded
StoreDeletionsSucceeded ==
  \A p \in Procs :
    \A i \in 1..Len(run[p].trace) :
      run[p].trace[i].op \in {"delete_chunks_by_book_id", "delete_book"} =>
        run[p].trace[i].ok

\* C38: whenever no pipeline invocation and no delete request is under way and
\* no store deletion has failed, every book_id that has vectors is the id of
\* an existing Book record.
C38_VectorsReferToBooks ==
  (Quiescent /\ StoreDeletionsSucceeded) =>
    \A id \in BookIds : vectors[id] > 0 => \E b \in books : b.id = id

IndexOutcome(r) ==
  IF r.result.status \in {"indexed", "skipped"} THEN r.result.status
  ELSE r.result.error

\* the counter of the parallel batch the file of invocation p is added to
BatchCounter(p) ==
  parallel_count(
    process_file_with_semaphore(p, IndexOutcome(run[p]), run[p].skip_existing))

\* no call of the invocation failed, but for create_book on the taken title
OnlyLostTheRace(r) ==
  \A i \in 1..Len(r.trace) :
    ~r.trace[i].ok =>
      (r.trace[i].op = "create_book" /\ r.exc = "DuplicateBookError")

\* C40: when two index_local_pdf invocations with skip_existing for the same
\* title have ended, interleaved in any way, and none of their calls failed
\* but for create_book on the taken title, at most one Book record has that
\* title, at most one of them returned an indexed result, the other one is
\* counted as skipped in the batch, and neither is counted as failed.
C40_SameTitleRace ==
  \A p, q \in Procs :
    LET r == run[p]
        s == run[q]
    IN (/\ p # q
        /\ IsLocalEntry(r) /\ IsLocalEntry(s)
        /\ r.skip_existing /\ s.skip_existing
        /\ r.title = s.title
        /\ IsDone(r) /\ IsDone(s)
        /\ OnlyLostTheRace(r) /\ OnlyLostTheRace(s)) =>
         /\ Cardinality({b \in books : b.title = r.title}) <= 1
         /\ ~(IndexOutcome(r) = "indexed" /\ IndexOutcome(s) = "indexed")
         /\ IndexOutcome(r) = "indexed" => BatchCounter(q) = "skipped"
         /\ BatchCounter(p) # "failed"

\* C40 witness: both invocations passed the title lookup before either created
\* the Book; one was indexed and the other lost at create_book.
C40_Witness ==
  \E p, q \in Procs :
    LET r == run[p]
        s == run[q]
    IN /\ p # q
       /\ IsLocalEntry(r) /\ IsLocalEntry(s)
       /\ r.skip_existing /\ s.skip_existing /\ r.title = s.title
       /\ IsDone(r) /\ IsDone(s)
       /\ OnlyLostTheRace(r) /\ OnlyLostTheRace(s)
       /\ IndexOutcome(r) = "indexed"
       /\ Failed(s, "create_book") /\ IndexOutcome(s) = "DuplicateBookError"

=============================================================================
